---- MODULE Spec2Model ----
(***************************************************************************)
(* Model of the interactive proof-checking engine of the RocqStar agentic  *)
(* system: the SessionManager's proof-version store, the CoqCodeExecutor   *)
(* transaction over the coq-lsp client, and the check-proof handler.       *)
(*                                                                         *)
(* Strings are sequences of tokens (words, ".", " ", "\n"); a string[] is  *)
(* a sequence of such sequences.                                           *)
(***************************************************************************)
EXTENDS Integers, Sequences, FiniteSets, TLC

VARIABLES
    sessions,       \* SessionManager.sessions: session id -> Session
    nextSessionId,  \* number of session ids handed out so far (uuidv4 is fresh)
    files,          \* the auxiliary files on disk: session id -> text or NoFile
    commitLog,      \* the commitProofPortion calls made so far (observation only)
    lastCommit,     \* the latest commitProofPortion call (observation only)
    nCommits,       \* number of commitProofPortion calls made so far
    tx,             \* the getGoalAfterCoqCode calls made so far, in call order
    lspQueue,       \* CoqLspClientImpl.mutex: the calls holding or awaiting it, FIFO
    lspActive,      \* the call at the head of lspQueue has sent its message
    execQueue,      \* CoqCodeExecutor.mutex: the calls holding or awaiting it, FIFO
    lspDoc,         \* the checker's view of each scratch document
    handler,        \* the check-proof request being handled, and its last response
    counts,         \* per session: transactions checked and versions committed
                    \* by check-proof (observation only)
    wait,           \* the waitUntilFileFullyChecked call of the client in progress
    requests,       \* check-proof requests in flight together on one session
    storeQueue,     \* SessionManager.mutex: the calls holding or awaiting it, FIFO
    closeOutcome,   \* how the latest closeSession call ended (observation only)
    transports,     \* mcpServer's transports map: the session ids it holds
    nextTransportId,\* number of transport session ids generated so far
    mcpClosed,      \* the transports closed so far (observation only)
    mcpResponse     \* the latest /mcp request and its handling (observation only)

storeVars == <<sessions, nextSessionId, commitLog, lastCommit, nCommits>>

execVars == <<tx, lspQueue, lspActive, execQueue, lspDoc>>

ctlVars == <<handler, counts>>

mcpVars == <<transports, nextTransportId, mcpClosed, mcpResponse>>

auxVars == <<wait, requests, storeQueue, closeOutcome, mcpVars>>

vars == <<sessions, nextSessionId, files, commitLog, lastCommit, nCommits,
          tx, lspQueue, lspActive, execQueue, lspDoc, handler, counts,
          wait, requests, storeQueue, closeOutcome,
          transports, nextTransportId, mcpClosed, mcpResponse>>

----------------------------------------------------------------------------
(* Bounds *)

MaxSessions == 1
MaxCommits == 3
MaxTx == 2
MaxOwners == 2      \* sessions alive side by side
MaxRequests == 4    \* requests followed while they overlap
MaxPolls == 2       \* polls of a wait before it gives up (300000 / 100 in the code)
MaxVersion == 2     \* document versions a wait or a publication is tagged with
MaxTransports == 2  \* transports the MCP server creates

----------------------------------------------------------------------------
(* Strings *)

RECURSIVE IndexOf(_, _, _)
\* String.prototype.indexOf for a one-token needle, from 1-based index i; 0 if absent
IndexOf(s, d, i) ==
    IF i > Len(s) THEN 0
    ELSE IF s[i] = d THEN i
    ELSE IndexOf(s, d, i + 1)

RECURSIVE Split(_, _)
\* String.prototype.split(d): "a.".split(".") = ["a", ""], "".split(".") = [""]
Split(s, d) ==
    LET i == IndexOf(s, d, 1)
    IN  IF i = 0 THEN <<s>>
        ELSE <<SubSeq(s, 1, i - 1)>> \o Split(SubSeq(s, i + 1, Len(s)), d)

RECURSIVE IndexOfProof(_, _)
\* index of the first occurrence of "Proof." in s from i; 0 if absent
IndexOfProof(s, i) ==
    IF i + 1 > Len(s) THEN 0
    ELSE IF s[i] = "Proof" /\ s[i + 1] = "." THEN i
    ELSE IndexOfProof(s, i + 1)

\* line.replace("Proof.", ""): removes the first occurrence only
RemoveFirstProof(s) ==
    LET i == IndexOfProof(s, 1)
    IN  IF i = 0 THEN s
        ELSE SubSeq(s, 1, i - 1) \o SubSeq(s, i + 2, Len(s))

RECURSIVE TrimStart(_)
TrimStart(s) ==
    IF s # <<>> /\ Head(s) \in {" ", "\n"} THEN TrimStart(Tail(s)) ELSE s

RECURSIVE TrimEnd(_)
TrimEnd(s) ==
    IF s # <<>> /\ s[Len(s)] \in {" ", "\n"} THEN TrimEnd(SubSeq(s, 1, Len(s) - 1))
    ELSE s

\* String.prototype.trim
Trim(s) == TrimEnd(TrimStart(s))

RECURSIVE DropEmpty(_)
\* .filter(step => step.length > 0)
DropEmpty(ss) ==
    IF ss = <<>> THEN <<>>
    ELSE IF Len(Head(ss)) > 0 THEN <<Head(ss)>> \o DropEmpty(Tail(ss))
    ELSE DropEmpty(Tail(ss))

RECURSIVE Flat(_)
\* Array.prototype.flat()
Flat(ss) == IF ss = <<>> THEN <<>> ELSE Head(ss) \o Flat(Tail(ss))

RECURSIVE Join(_, _)
\* Array.prototype.join(d) for a one-token separator
Join(ls, d) ==
    IF ls = <<>> THEN <<>>
    ELSE IF Len(ls) = 1 THEN ls[1]
    ELSE ls[1] \o <<d>> \o Join(Tail(ls), d)

----------------------------------------------------------------------------
(* SessionManager: the proof-version store *)

\* parentHash: null, and the `undefined` a lookup or a failed commit returns
NoHash == <<>>

\* sha256 over JSON.stringify(proofContent) followed by (parentHash || ""),
\* taken as collision free: the digest is the pair itself
Hash(proofContent, parentHash) == <<proofContent, parentHash>>

\* validProofStepsPrefix / isIncomplete before the controller sets them
Undefined == <<<<"undefined">>>>

NoFile == <<"ENOENT">>

\* the source file read at startSession: lines before the theorem, and the statement
SourcePrefixLines == << <<"Require", ".">> >>
TheoremStatement == <<"Theorem", "foo", ".">>

filePrefixContentOf == SourcePrefixLines \o <<TheoremStatement>>

\* an initial version that already holds the statement as a step
InitialProofVersionWithStep ==
    [proofContent |-> <<>>, proofSteps |-> <<<<"Theorem", "foo", ".">>>>,
     parentHash |-> NoHash, childrenHashes |-> <<>>,
     validProofStepsPrefix |-> <<<<"undefined">>>>, isIncomplete |-> "undefined"]

InitialProofVersion ==
    [proofContent |-> <<>>, proofSteps |-> <<>>, parentHash |-> NoHash,
     childrenHashes |-> <<>>,
     validProofStepsPrefix |-> Undefined, isIncomplete |-> "undefined"]

RootHash == Hash(InitialProofVersion.proofContent, NoHash)

\* the arguments of /start-session, the same for every session
SourceFilePath == "theories/foo.v"
TheoremName == "foo"

\* the entry startSession registers under sessionId; the scratch file is
\* named after the session it belongs to
NewSession(sessionId) ==
    [id |-> sessionId,
     sourceFilePath |-> SourceFilePath,
     theoremName |-> TheoremName,
     theoremStatement |-> TheoremStatement,
     auxFileUri |-> sessionId,
     auxFileVersionNumber |-> 1,
     filePrefixContent |-> filePrefixContentOf,
     proofVersions |-> (RootHash :> InitialProofVersion),
     keyOrder |-> <<RootHash>>]

\* proofPortion.map(line => line.replace("Proof.", ""))
StripProof(proofPortion) ==
    [i \in 1..Len(proofPortion) |-> RemoveFirstProof(proofPortion[i])]

\* .map(line => line.split(".")).flat().map(step => `${step}.`)
ProofPortionSteps(proofPortion) ==
    LET parts == Flat([i \in 1..Len(proofPortion) |-> Split(proofPortion[i], ".")])
    IN  [i \in 1..Len(parts) |-> parts[i] \o <<".">>]

\* proofVersion.proofSteps.every((step, i) => proofPortionSteps[i] === step)
\*   && proofVersion.proofSteps.length <= proofPortionSteps.length
IsPrefix(proofSteps, proofPortionSteps) ==
    /\ \A i \in 1..Len(proofSteps) :
          i <= Len(proofPortionSteps) /\ proofPortionSteps[i] = proofSteps[i]
    /\ Len(proofSteps) <= Len(proofPortionSteps)

RECURSIVE findPrefixProofVersion(_, _, _)
RECURSIVE findInChildren(_, _, _, _)
RECURSIVE findInChildrenLatest(_, _, _, _)
\* the closure findPrefixProofVersion of commitProofPortion; NoHash is `undefined`
findPrefixProofVersion(session, hash, proofPortionSteps) ==
    IF hash \notin DOMAIN session.proofVersions THEN NoHash
    ELSE LET proofVersion == session.proofVersions[hash]
         IN  IF IsPrefix(proofVersion.proofSteps, proofPortionSteps) THEN hash
             ELSE findInChildren(session, proofVersion.childrenHashes, 1,
                                 proofPortionSteps)

\* findInChildren falling back to the latest key of the map instead of the first
findInChildrenLatest(session, childrenHashes, i, proofPortionSteps) ==
    IF i > Len(childrenHashes) THEN session.keyOrder[Len(session.keyOrder)]
    ELSE LET result == findPrefixProofVersion(session, childrenHashes[i],
                                              proofPortionSteps)
         IN  IF result # NoHash THEN result
             ELSE findInChildrenLatest(session, childrenHashes, i + 1,
                                       proofPortionSteps)

\* the for loop over childrenHashes: the first truthy result, else the
\* first key of the map (initialProofVersionHash)
findInChildren(session, childrenHashes, i, proofPortionSteps) ==
    IF i > Len(childrenHashes) THEN Head(session.keyOrder)
    ELSE LET result == findPrefixProofVersion(session, childrenHashes[i],
                                              proofPortionSteps)
         IN  IF result # NoHash THEN result
             ELSE findInChildren(session, childrenHashes, i + 1, proofPortionSteps)

\* updatedProofVersion built with the initial version's parentHash: null
UpdatedProofVersionNullParent(proofPortion, proofPortionSteps, foundPrefixVersionHash) ==
    [proofContent |-> proofPortion, proofSteps |-> proofPortionSteps,
     parentHash |-> NoHash, childrenHashes |-> <<>>,
     validProofStepsPrefix |-> Undefined, isIncomplete |-> "undefined"]

\* the object literal updatedProofVersion
UpdatedProofVersion(proofPortion, proofPortionSteps, foundPrefixVersionHash) ==
    [proofContent |-> proofPortion, proofSteps |-> proofPortionSteps,
     parentHash |-> foundPrefixVersionHash, childrenHashes |-> <<>>,
     validProofStepsPrefix |-> Undefined, isIncomplete |-> "undefined"]

\* Map.prototype.set: a new key goes last in iteration order, an existing key is overwritten
MapSet(session, hash, version) ==
    [session EXCEPT
        !.proofVersions = [h \in DOMAIN session.proofVersions \cup {hash} |->
                              IF h = hash THEN version ELSE session.proofVersions[h]],
        !.keyOrder = IF hash \in DOMAIN session.proofVersions THEN @
                     ELSE Append(@, hash)]

\* foundPrefixVersion.childrenHashes.push(hash)
PushChild(session, foundPrefixVersionHash, hash) ==
    [session EXCEPT
        !.proofVersions[foundPrefixVersionHash].childrenHashes = Append(@, hash)]

\* foundPrefixVersionHash of commitProofPortion (NoHash for `undefined`)
FoundPrefixVersionHash(session, proofPortion0, parentHash) ==
    findPrefixProofVersion(session, parentHash,
                           ProofPortionSteps(StripProof(proofPortion0)))

\* the hash commitProofPortion returns (NoHash for `undefined`)
CommitHash(ss, sessionId, proofPortion0, parentHash) ==
    IF sessionId \notin DOMAIN ss THEN NoHash
    ELSE LET found == FoundPrefixVersionHash(ss[sessionId], proofPortion0, parentHash)
         IN  IF found = NoHash \/ found \notin DOMAIN ss[sessionId].proofVersions
             THEN NoHash
             ELSE Hash(StripProof(proofPortion0), found)

\* a commit whose version counter is one counter for all sessions
CommitSessionsShared(ss, sessionId, proofPortion0, newVersion, parentHash) ==
    [s \in DOMAIN ss |-> [ss[s] EXCEPT !.auxFileVersionNumber = newVersion]]

\* the session map after commitProofPortion
CommitSessions(ss, sessionId, proofPortion0, newVersion, parentHash) ==
    LET hash == CommitHash(ss, sessionId, proofPortion0, parentHash)
    IN  IF hash = NoHash THEN ss
        ELSE LET proofPortion == StripProof(proofPortion0)
                 found == FoundPrefixVersionHash(ss[sessionId], proofPortion0,
                                                 parentHash)
                 pushed == PushChild(ss[sessionId], found, hash)
                 set == MapSet(pushed, hash,
                               UpdatedProofVersion(proofPortion,
                                   ProofPortionSteps(proofPortion), found))
             IN  [ss EXCEPT ![sessionId] =
                    [set EXCEPT !.auxFileVersionNumber = newVersion]]

----------------------------------------------------------------------------
(* The checker's answers, and CoqLspClientImpl's reading of them *)

\* a document the checker has not been sent
ClosedDoc == [open |-> FALSE, text |-> <<>>, version |-> 0]

NoDiagnostic == [present |-> FALSE, ppMessage |-> "", range |-> <<>>]

\* an LspDiagnostic (DiagnosticMessage) starting at the given zero-based line
Diagnostic(line) ==
    [present |-> TRUE, ppMessage |-> "error",
     range |-> <<<<line, 0>>, <<line, 1>>>>]

\* a GoalAnswer: `undefined`, an answer without goals object, a request that
\* throws, or a goals object with (possibly missing) goal list and stack;
\* a stack entry is a pair whose second component holds the remaining goals
GoalAnswer(kind, hasGoalList, goals, hasStack, stack) ==
    [kind |-> kind, hasGoalList |-> hasGoalList, goals |-> goals,
     hasStack |-> hasStack, stack |-> stack]

NoAnswer == GoalAnswer("none", FALSE, <<>>, FALSE, <<>>)

GoalAnswers ==
    { GoalAnswer("config", TRUE, <<>>, TRUE, <<>>),
      GoalAnswer("config", TRUE, <<"g1">>, TRUE, << <<<<>>, <<>>>> >>),
      GoalAnswer("config", TRUE, <<"g1">>, TRUE,
                 << <<<<>>, <<>>>>, <<<<>>, <<>>>>, <<<<>>, <<"g2", "g3">>>> >>),
      GoalAnswer("config", TRUE, <<"g1">>, TRUE, << <<<<>>, <<"g2">>>> >>) }

\* a Result<ProofGoal[], Error>: Ok(goals), or Err with the error's name,
\* message and location; json is the value a JSON message encodes, and an
\* absent name, message or location is "" or <<>>
OkGoals(goals) ==
    [ok |-> TRUE, goals |-> goals, name |-> "", message |-> "", json |-> <<>>,
     location |-> <<>>]

ErrGoals(name, message, json) ==
    [ok |-> FALSE, goals |-> <<>>, name |-> name, message |-> message,
     json |-> json, location |-> <<>>]

\* Err({message: diagnostic.ppMessage, location: diagnostic.range})
ErrDiagnostic(diagnostic) ==
    [ok |-> FALSE, goals |-> <<>>, name |-> "", message |-> diagnostic.ppMessage,
     json |-> <<>>, location |-> diagnostic.range]

\* no goal result or return value yet
NoResult == ErrGoals("none", "", <<>>)

\* Err(CoqLspError.unknownError())
UnknownError == ErrGoals("CoqLspError", "unknown", <<>>)

\* a stack scan that finds nothing
SubstackGoalsNone(stack, i) == <<>>

RECURSIVE SubstackGoalsFrom(_, _)
\* the loop of getGoalsAtPointUnsafe from stack index i (1-based here, i - 1 in
\* the code): the first entry with remaining goals, as [index, goals], or none
SubstackGoalsFrom(stack, i) ==
    IF i > Len(stack) THEN <<>>
    ELSE IF Len(stack[i][2]) = 0 THEN SubstackGoalsFrom(stack, i + 1)
    ELSE << <<i - 1, stack[i][2]>> >>

\* the answers the goal scan cannot read: `undefined`, `null`, an answer
\* without goals object, a goals object without goal list or without stack,
\* and a request the checker rejects
MalformedAnswers ==
    { GoalAnswer("undefined", FALSE, <<>>, FALSE, <<>>),
      GoalAnswer("null", FALSE, <<>>, FALSE, <<>>),
      GoalAnswer("noGoals", FALSE, <<>>, FALSE, <<>>),
      GoalAnswer("requestError", FALSE, <<>>, FALSE, <<>>),
      GoalAnswer("config", FALSE, <<>>, TRUE, <<>>),
      GoalAnswer("config", FALSE, <<>>, TRUE, << <<<<>>, <<"g2">>>> >>),
      GoalAnswer("config", TRUE, <<"g1">>, FALSE, <<>>),
      GoalAnswer("config", FALSE, <<>>, FALSE, <<>>) }

\* Err(new CoqLspError(errorMsg)): the cleaned message of a rejected request
RequestError == ErrGoals("CoqLspError", "request error", <<>>)

\* Err(new CoqLspError("Unable to parse CoqLSP error, ..." + e.message)): an
\* Error caught whose message is not one of a rejected request, such as the
\* TypeError of reading a property of null or the length of a missing stack
UnparsedError == ErrGoals("CoqLspError", "unable to parse", <<>>)

\* the goal scan without the tests of the answer's shape
getGoalsAtPointUnchecked(answer) ==
    LET substackGoals == SubstackGoalsFrom(answer.stack, 1)
    IN  IF Len(substackGoals) = 0 THEN OkGoals(answer.goals)
        ELSE ErrGoals("stack_subgoals", "JSON", substackGoals)

\* getGoalsAtPointUnsafe applied to the checker's answer
getGoalsAtPointUnsafe(answer) ==
    IF answer.kind = "requestError" THEN RequestError
    ELSE IF answer.kind = "undefined" THEN UnknownError
    ELSE IF answer.kind = "null" THEN UnparsedError
    ELSE IF answer.kind = "noGoals" THEN UnknownError
    ELSE IF ~answer.hasStack THEN UnparsedError
    ELSE LET substackGoals == SubstackGoalsFrom(answer.stack, 1)
         IN  IF ~answer.hasGoalList THEN UnknownError
             ELSE IF Len(substackGoals) = 0 THEN OkGoals(answer.goals)
             ELSE ErrGoals("stack_subgoals", "JSON", substackGoals)

----------------------------------------------------------------------------
(* CoqProjectController.checkProofInFile: requests, results and responses *)

\* a ProofCheckResponse; an absent hash is NoHash, an absent depth is -1.
\* payload is "" for an object with a success flag and a message, and names
\* the only key of an object that has neither
Response(success, message, goals, hash, depth, error) ==
    [success |-> success, message |-> message, goals |-> goals, hash |-> hash,
     depth |-> depth, error |-> error, payload |-> "", line |-> -1]

NoResponse == Response(FALSE, "", <<>>, NoHash, -1, "")

\* the error leaves checkProofInFile: no response object is returned
Escaped(error) == [NoResponse EXCEPT !.error = error]

\* the catch clause of checkProofInFile
FailedResponse(error) ==
    Response(FALSE, "Failed to check proof", <<>>, NoHash, -1, error)

\* the response of Case 3: the message ends with "at L<errorousLineNumber>"
ErrorsResponse(goals, hash, errorousLineNumber) ==
    [Response(FALSE, "Proof contains errors", goals, hash, -1, "")
        EXCEPT !.line = errorousLineNumber]

\* the response of Case 1
CompleteResponse(hash) ==
    Response(TRUE, "Proof complete and valid", <<>>, hash, -1, "")

\* no request is being handled; response is the last one returned, request
\* the endpoint that returned it
IdleHandler(response) ==
    [pc |-> "idle", request |-> "check-proof", sessionId |-> 0,
     preparedProof |-> <<>>,
     proofVersionHash |-> NoHash, counter |-> 0, tx |-> 0,
     result |-> NoResult, updatedProofVersionHash |-> NoHash,
     validProofPrefixLines |-> <<>>, newVersion |-> 0,
     errorousLineNumber |-> -1, response |-> response]

\* goals.map(goal => ({conclusion: ..., hypothesis: ...}))
ApiGoals(goals) == [i \in 1..Len(goals) |-> <<"ApiGoal", goals[i]>>]

\* the location checkCoqProof reports when the executor's error has none
ZeroLocation == <<<<0, 0>>, <<0, 0>>>>

\* CoqProjectObserverService.checkCoqProof on a settled getGoalAfterCoqCode
\* call: the result is mapped, a rejection or the timeout is caught
checkCoqProof(t) ==
    IF t.outer = "resolved"
    THEN IF t.result.ok THEN OkGoals(ApiGoals(t.result.goals))
         ELSE IF t.result.name = "stack_subgoals"
         THEN ErrGoals(t.result.name, t.result.message, t.result.json)
         ELSE [ok |-> FALSE, goals |-> <<>>, name |-> "",
               message |-> t.result.message, json |-> <<>>,
               location |-> IF t.result.location = <<>> THEN ZeroLocation
                            ELSE t.result.location]
    ELSE ErrGoals("", IF t.outer = "timedout" THEN "executeCoqCode timed out"
                      ELSE "coq-lsp did not respond in time", <<>>)

RECURSIVE Includes(_, _, _)
\* String.prototype.includes for a two-token needle such as "admit."
Includes(s, a, b) ==
    IF Len(s) < 2 THEN FALSE
    ELSE IF s[1] = a /\ s[2] = b THEN TRUE
    ELSE Includes(Tail(s), a, b)

\* Array.prototype.indexOf for a line, 0-based; -1 if absent
RECURSIVE LineIndexOf(_, _, _)
LineIndexOf(lines, line, i) ==
    IF i > Len(lines) THEN -1
    ELSE IF lines[i] = line THEN i - 1
    ELSE LineIndexOf(lines, line, i + 1)

\* Array.prototype.slice(0, end): a negative end counts from the end
Slice0(seq, end) ==
    LET e == IF end < 0 THEN (IF Len(seq) + end < 0 THEN 0 ELSE Len(seq) + end)
             ELSE IF end > Len(seq) THEN Len(seq) ELSE end
    IN  SubSeq(seq, 1, e)

\* lines.map(split(".")).flat().map(trim).filter(nonempty).map(step => `${step}.`)
TrimmedSteps(lines) ==
    LET parts == Flat([i \in 1..Len(lines) |-> Split(lines[i], ".")])
        trimmed == [i \in 1..Len(parts) |-> Trim(parts[i])]
        kept == DropEmpty(trimmed)
    IN  [i \in 1..Len(kept) |-> kept[i] \o <<".">>]

\* Case 1 leaving the isIncomplete flag as the commit made it
MarkCompleteNoFlag(version, preparedProofLines) ==
    [version EXCEPT
        !.validProofStepsPrefix = TrimmedSteps(StripProof(preparedProofLines))]

\* Case 1: validProofStepsPrefix and isIncomplete = false on the committed version
MarkComplete(version, preparedProofLines) ==
    [version EXCEPT
        !.validProofStepsPrefix = TrimmedSteps(StripProof(preparedProofLines)),
        !.isIncomplete = "false"]

\* Case 2: validProofStepsPrefix of a version with remaining goals
MarkValidSoFar(version, preparedProof, preparedProofLines) ==
    [version EXCEPT
        !.validProofStepsPrefix =
            IF Includes(preparedProof, "admit", ".")
            THEN TrimmedSteps(StripProof(
                    Slice0(preparedProofLines,
                           LineIndexOf(preparedProofLines, <<"admit", ".">>, 1) + 1)))
            ELSE TrimmedSteps(preparedProofLines)]

\* the counter after a transaction advancing by one
AdvancedVersionByOne(auxFileVersionNumber) == auxFileVersionNumber + 1

\* currentSession.auxFileVersionNumber + 2 after a transaction
AdvancedVersion(auxFileVersionNumber) == auxFileVersionNumber + 2

\* the first response depth and goals of a stack_subgoals message:
\* the first [depth, goals] entry with goals
StackResponse(hash, message) ==
    LET nonEmpty == SelectSeq(message, LAMBDA kek : Len(kek[2]) > 0)
    IN  IF nonEmpty = <<>>
        THEN Response(TRUE, "Your proof is incomplete but valid so far", <<>>,
                      hash, -1, "")
        ELSE Response(TRUE, "Your proof is incomplete but valid so far",
                      ApiGoals(nonEmpty[1][2]), hash, nonEmpty[1][1], "")

----------------------------------------------------------------------------
(* Scheduling: the continuations a step makes ready (promise reactions) run
   before the next event (a request, an answer of the checker, a timer) *)

\* the client mutex has a waiter and no holder: the waiter runs next
LspHandOff == lspQueue # <<>> /\ ~lspActive

\* a client call has returned to a body that has not continued yet
BodyReady == \E i \in 1..Len(tx) : tx[i].st = "returned"

\* the body raced by the holder of the executor mutex has settled
RaceReady ==
    /\ execQueue # <<>>
    /\ tx[Head(execQueue)].st \in {"resolved", "rejected"}

\* the check-proof handler can continue after its await
HandlerReady ==
    \/ /\ handler.pc \in {"primary", "validPrefix"}
       /\ tx[handler.tx].outer # "pending"
    \/ handler.pc \in {"commit", "commitValidPrefix"}

ReactionsPending == LspHandOff \/ BodyReady \/ RaceReady \/ HandlerReady

----------------------------------------------------------------------------
(* CoqLspClientImpl.waitUntilFileFullyChecked: the flags of the wait *)

\* what a wait has received so far (observation only): the report, a
\* publication for the document, one tagged with the awaited version, one
\* with an error in the tail, and which of the two signals came first
NoSignal ==
    [progress |-> FALSE, diagnostics |-> FALSE, awaitedVersion |-> FALSE,
     tailError |-> FALSE, first |-> ""]

\* no wait is in progress; awaitedDiagnostics is <<>> for undefined and <<a>>
\* for the array a
NoWait ==
    [op |-> "none", version |-> 0, pendingProgress |-> FALSE,
     pendingDiagnostic |-> FALSE, awaitedDiagnostics |-> <<>>,
     timeout |-> 0, outcome |-> "none", result |-> NoDiagnostic,
     awaitedVersion |-> 0, seen |-> NoSignal]

----------------------------------------------------------------------------
(* Inputs of the store's operations *)

Line1 == <<"intros", ".">>
Line2 == <<"intros", ".", " ", "reflexivity", ".">>
Line3 == <<"Proof", ".", " ", "intros", ".", " ">>


\* the string[] arguments tried
ProofPortions == {<<Line1>>, <<Line2>>, <<Line1, Line1>>, <<Line3>>}

\* a hash no version has
UnknownHash == Hash(<< <<"unknown">> >>, NoHash)

SessionIds == 1..MaxSessions

----------------------------------------------------------------------------
(* Actions of the store *)

CommitEntry(sessionId, proofPortion, parentHash, ret) ==
    [sessionId |-> sessionId, proofPortion |-> proofPortion,
     parentHash |-> parentHash, ret |-> ret]

SameCommitArgs(e1, e2) ==
    /\ e1.sessionId = e2.sessionId
    /\ e1.proofPortion = e2.proofPortion
    /\ e1.parentHash = e2.parentHash

NoCommit == [sessionId |-> 0, proofPortion |-> <<>>, parentHash |-> NoHash,
             ret |-> NoHash, repeated |-> FALSE]

\* records a commitProofPortion call and the hash it returns
LogCommit(sessionId, proofPortion, parentHash) ==
    LET e == CommitEntry(sessionId, proofPortion, parentHash,
                         CommitHash(sessions, sessionId, proofPortion, parentHash))
    IN  /\ commitLog' = commitLog \cup {e}
        /\ lastCommit' = [sessionId |-> e.sessionId,
                          proofPortion |-> e.proofPortion,
                          parentHash |-> e.parentHash, ret |-> e.ret,
                          repeated |-> \E c \in commitLog :
                                          SameCommitArgs(c, e) /\ c.ret # NoHash]
        /\ nCommits' = nCommits + 1

StoreInit ==
    /\ sessions = <<>>
    /\ nextSessionId = 0
    /\ files = [s \in SessionIds |-> NoFile]
    /\ commitLog = {}
    /\ lastCommit = NoCommit
    /\ nCommits = 0

ExecInit ==
    /\ tx = <<>>
    /\ lspQueue = <<>>
    /\ lspActive = FALSE
    /\ execQueue = <<>>
    /\ lspDoc = [s \in SessionIds |-> ClosedDoc]

CtlInit ==
    /\ handler = IdleHandler(NoResponse)
    /\ counts = [s \in SessionIds |-> [transactions |-> 0, commits |-> 0]]

\* no wait of the client and no concurrent request is followed
\* a header that is absent (`undefined`)
NoHeader == "undefined"

\* no /mcp request handled yet
NoMcpResponse ==
    [method |-> "none", sessionId |-> NoHeader, isInitialize |-> FALSE,
     registered |-> FALSE, status |-> "none", created |-> NoHeader]

\* const transports = {}
McpInit ==
    /\ transports = {}
    /\ nextTransportId = 0
    /\ mcpClosed = {}
    /\ mcpResponse = NoMcpResponse

AuxInit ==
    /\ wait = NoWait
    /\ requests = <<>>
    /\ storeQueue = <<>>
    /\ closeOutcome = "none"
    /\ McpInit

\* what startSession returns when called in this state: the id handed out
\* and the hash computed from the initial version
StartSessionReturn ==
    [sessionId |-> nextSessionId + 1,
     proofVersionHash |-> Hash(InitialProofVersion.proofContent,
                               InitialProofVersion.parentHash)]

\* SessionManager.startSession
StartSessionUpTo(limit) ==
    /\ ~ReactionsPending
    /\ nextSessionId < limit
    /\ LET sessionId == nextSessionId + 1
           session == NewSession(sessionId)
       IN  /\ files' = [files EXCEPT ![sessionId] = Join(filePrefixContentOf, "\n")]
           /\ sessions' = [s \in DOMAIN sessions \cup {sessionId} |->
                              IF s = sessionId THEN session ELSE sessions[s]]
           /\ nextSessionId' = sessionId
           /\ lspDoc' = lspDoc
    /\ UNCHANGED <<commitLog, lastCommit, nCommits>>
    /\ UNCHANGED <<tx, lspQueue, lspActive, execQueue, handler, counts>>
    /\ UNCHANGED auxVars

\* SessionManager.startSession while fewer than MaxSessions were started
StartSession == StartSessionUpTo(MaxSessions)

\* SessionManager.commitProofPortion, called with any arguments
CommitProofPortion(sessionId, proofPortion, newVersion, parentHash) ==
    /\ nCommits < MaxCommits
    /\ sessions' = CommitSessions(sessions, sessionId, proofPortion, newVersion,
                                  parentHash)
    /\ LogCommit(sessionId, proofPortion, parentHash)
    /\ UNCHANGED <<nextSessionId, files>>
    /\ UNCHANGED <<execVars, ctlVars>>
    /\ UNCHANGED auxVars

\* an error of unlinkSync that leaves closeSession
PropagatedWhenUnlinkFails(unlinkFails) == unlinkFails

\* the error of unlinkSync leaves closeSession: never, the catch clause
\* around unlinkSync logs it
Propagated(unlinkFails) == FALSE

\* SessionManager.closeSession; unlinkSync may throw, which is caught and logged
CloseSession(sessionId, unlinkFails) ==
    /\ ~ReactionsPending
    /\ IF sessionId \in DOMAIN sessions
       THEN /\ files' = IF unlinkFails \/ files[sessionId] = NoFile THEN files
                        ELSE [files EXCEPT ![sessionId] = NoFile]
            /\ sessions' = IF Propagated(unlinkFails) THEN sessions
                           ELSE [s \in DOMAIN sessions \ {sessionId} |->
                                   sessions[s]]
       ELSE UNCHANGED <<sessions, files>>
    /\ closeOutcome' = IF sessionId \in DOMAIN sessions /\ Propagated(unlinkFails)
                       THEN "rejected" ELSE "resolved"
    /\ UNCHANGED <<nextSessionId, commitLog, lastCommit, nCommits>>
    /\ UNCHANGED <<execVars, ctlVars>>
    /\ UNCHANGED <<wait, requests, storeQueue, mcpVars>>

\* both call sites pass currentSession.auxFileVersionNumber + 1 as newVersion
StoreCommit ==
    \E sessionId \in SessionIds, proofPortion \in ProofPortions :
        \E parentHash \in (IF sessionId \in DOMAIN sessions
                           THEN DOMAIN sessions[sessionId].proofVersions
                           ELSE {}) \cup {UnknownHash} :
            CommitProofPortion(sessionId, proofPortion,
                IF sessionId \in DOMAIN sessions
                THEN sessions[sessionId].auxFileVersionNumber + 1 ELSE 1,
                parentHash)

StoreClose ==
    \E sessionId \in SessionIds, unlinkFails \in BOOLEAN :
        /\ sessionId <= nextSessionId
        /\ CloseSession(sessionId, unlinkFails)

StoreNext == StartSession \/ StoreCommit \/ StoreClose

\* the store alone: no transaction and no request
InitStore == StoreInit /\ ExecInit /\ CtlInit /\ AuxInit

SpecStore == InitStore /\ [][StoreNext]_vars

----------------------------------------------------------------------------
(* Sessions side by side: everything that writes to a session, applied to
   MaxOwners sessions. Besides the three operations of the store this is the
   advance of the counter that checkProofInFile makes on the session object
   it got from getSession. *)

OwnerIds == 1..MaxOwners

\* startSession, up to MaxOwners times
OwnerStart == StartSessionUpTo(MaxOwners)

\* commitProofPortion as checkProofInFile calls it: the prepared proof under
\* counter + 1
OwnerCommit(sessionId, parentHash) ==
    /\ sessionId \in DOMAIN sessions
    /\ CommitProofPortion(sessionId, <<Line1>>,
                          sessions[sessionId].auxFileVersionNumber + 1,
                          parentHash)

\* currentSession.auxFileVersionNumber = currentSession.auxFileVersionNumber + 2
OwnerAdvance(sessionId) ==
    /\ sessionId \in DOMAIN sessions
    /\ sessions[sessionId].auxFileVersionNumber <= MaxCommits  \* counter kept finite
    /\ sessions' = [sessions EXCEPT ![sessionId].auxFileVersionNumber =
                                       AdvancedVersion(@)]
    /\ UNCHANGED <<nextSessionId, files, commitLog, lastCommit, nCommits>>
    /\ UNCHANGED <<execVars, ctlVars>>
    /\ UNCHANGED auxVars

\* closeSession of a session that was started
OwnerClose(sessionId, unlinkFails) ==
    /\ sessionId <= nextSessionId
    /\ CloseSession(sessionId, unlinkFails)

OwnerCommits ==
    \E sessionId \in OwnerIds :
        \E parentHash \in {RootHash, UnknownHash} :
            OwnerCommit(sessionId, parentHash)

OwnerAdvances == \E sessionId \in OwnerIds : OwnerAdvance(sessionId)

OwnerCloses ==
    \E sessionId \in OwnerIds, unlinkFails \in BOOLEAN :
        OwnerClose(sessionId, unlinkFails)

OwnerNext == OwnerStart \/ OwnerCommits \/ OwnerAdvances \/ OwnerCloses

\* no session; room for the scratch files of MaxOwners sessions
InitOwners ==
    /\ sessions = <<>>
    /\ nextSessionId = 0
    /\ files = [s \in OwnerIds |-> NoFile]
    /\ commitLog = {}
    /\ lastCommit = NoCommit
    /\ nCommits = 0
    /\ tx = <<>>
    /\ lspQueue = <<>>
    /\ lspActive = FALSE
    /\ execQueue = <<>>
    /\ lspDoc = [s \in OwnerIds |-> ClosedDoc]
    /\ handler = IdleHandler(NoResponse)
    /\ counts = [s \in OwnerIds |-> [transactions |-> 0, commits |-> 0]]
    /\ wait = NoWait
    /\ requests = <<>>
    /\ storeQueue = <<>>
    /\ closeOutcome = "none"
    /\ McpInit

SpecOwners == InitOwners /\ [][OwnerNext]_vars


----------------------------------------------------------------------------
(* CoqCodeExecutor.getGoalAfterCoqCode over the coq-lsp client *)

\* sourceFileContent = sourceFileContentPrefix.join("\n")
sourceFileContent == Join(filePrefixContentOf, "\n")

\* appendedSuffix = `\n\n${coqCode}`
appendedSuffix(coqCode) == <<"\n", "\n">> \o coqCode

\* prepareProofToCheck on a proof without backticks or Qed./Admitted./Abort.:
\* every "Proof." removed, the rest trimmed, wrapped as `Proof. ${...} `
RECURSIVE RemoveAllProof(_)
RemoveAllProof(s) ==
    IF IndexOfProof(s, 1) = 0 THEN s ELSE RemoveAllProof(RemoveFirstProof(s))

prepareProofToCheck(proof) ==
    <<"Proof", ".", " ">> \o Trim(RemoveAllProof(proof)) \o <<" ">>

\* the proofs submitted for checking
Proofs ==
    { <<"intros", ".">>,
      <<"Proof", ".", "\n", "intros", ".", "\n", "admit", ".">> }

ExecProof == <<"Proof", ".", "\n", "intros", ".">>

\* a message sent to the checker: didOpen, didChange or a goal request
Message(kind, version, text) == [kind |-> kind, version |-> version, text |-> text]

\* one call of getGoalAfterCoqCode: op is the client call the body is at and
\* st its state (queued on the client mutex, returned to the body, or the body
\* resolved / rejected); outer is the promise the caller awaits
NewTx(file, coqCode, documentVersion) ==
    [file |-> file, coqCode |-> coqCode, documentVersion |-> documentVersion,
     op |-> "open", st |-> "queued",
     diagnostic |-> NoDiagnostic, answer |-> NoAnswer, goal |-> NoResult,
     result |-> NoResult, outer |-> "pending", sent |-> <<>>,
     awaited |-> TRUE]

\* a call whose body has finished and whose caller has taken the outcome:
\* nothing refers to it any longer
ReleasedTx ==
    [NewTx(0, <<>>, 0) EXCEPT !.op = "none", !.st = "released",
                              !.outer = "released", !.awaited = FALSE]

Release(t) ==
    IF ~t.awaited /\ t.st \in {"resolved", "rejected"} THEN ReleasedTx ELSE t

\* the value getGoalAfterCoqCodeUnsafe returns after the revert
BodyResult(t) ==
    IF t.diagnostic.present THEN ErrDiagnostic(t.diagnostic)
    ELSE IF t.goal.ok THEN OkGoals(t.goal.goals)
    ELSE ErrGoals(t.goal.name, t.goal.message, t.goal.json)

\* Mutex.runExclusive on the client mutex ends, by a return or by a throw: the
\* holder leaves the queue kept without the holder
HeldForever(queue) == queue

Unlocked(queue) == Tail(queue)

\* getGoalAfterCoqCode is called: the body runs up to its first await, queueing
\* openTextDocument on the client mutex, and executeWithTimeout then queues the
\* race on the executor mutex
ExecRequest(file, coqCode, documentVersion) ==
    /\ tx' = Append(tx, NewTx(file, coqCode, documentVersion))
    /\ lspQueue' = Append(lspQueue, Len(tx) + 1)
    /\ execQueue' = Append(execQueue, Len(tx) + 1)
    /\ UNCHANGED <<lspActive, lspDoc, files>>

\* the call at the head of the client mutex runs: openTextDocumentUnsafe reads
\* the file and sends didOpen, updateTextDocumentUnsafe sends didChange with
\* the full text, getGoalsAtPointUnsafe sends the goal request
LspBegin ==
    /\ lspQueue # <<>>
    /\ ~lspActive
    /\ LET i == Head(lspQueue)
           t == tx[i]
           base == t.documentVersion
       IN  IF t.op = "open" /\ files[t.file] = NoFile
           THEN /\ tx' = [tx EXCEPT ![i] = Release([t EXCEPT !.st = "rejected"])]
                /\ lspQueue' = Unlocked(lspQueue)
                /\ UNCHANGED <<lspActive, lspDoc>>
           ELSE LET m == CASE t.op = "open" -> Message("open", 1, files[t.file])
                           [] t.op = "update" ->
                                Message("change", base + 1,
                                        sourceFileContent \o appendedSuffix(t.coqCode))
                           [] t.op = "goals" -> Message("goals", base + 1, <<>>)
                           [] t.op = "revert" ->
                                Message("change", base + 2, sourceFileContent)
                           [] t.op = "close" -> Message("close", 0, <<>>)
                IN  /\ tx' = [tx EXCEPT ![i].sent = Append(@, m)]
                    /\ lspDoc' = CASE m.kind = "goals" -> lspDoc
                                   [] m.kind = "close" ->
                                        [lspDoc EXCEPT ![t.file] = ClosedDoc]
                                   [] OTHER ->
                                        [lspDoc EXCEPT ![t.file] =
                                           [open |-> TRUE, text |-> m.text,
                                            version |-> m.version]]
                    /\ lspActive' = TRUE
                    /\ UNCHANGED lspQueue
    /\ UNCHANGED <<execQueue, files, storeVars, ctlVars>>
    /\ UNCHANGED auxVars

\* the running client call returns to the body: the wait for the checker ends
\* with the filtered diagnostic, or the goal request is answered
LspReturn(diagnostic, answer) ==
    /\ ~ReactionsPending
    /\ lspQueue # <<>>
    /\ lspActive
    /\ LET i == Head(lspQueue)
           t == tx[i]
           u == CASE t.op = "open" -> t
                  [] t.op = "update" -> [t EXCEPT !.diagnostic = diagnostic]
                  [] t.op = "goals" ->
                       [t EXCEPT !.answer = answer,
                                 !.goal = getGoalsAtPointUnsafe(answer)]
                  [] t.op = "revert" -> t
                  [] t.op = "close" -> t
       IN  tx' = [tx EXCEPT ![i] =
                    CASE t.op = "revert" ->
                           Release([u EXCEPT !.st = "resolved",
                                             !.result = BodyResult(u)])
                      [] t.op = "close" -> Release([u EXCEPT !.st = "resolved"])
                      [] OTHER -> [u EXCEPT !.st = "returned"]]
    /\ lspQueue' = Unlocked(lspQueue)
    /\ lspActive' = FALSE
    /\ UNCHANGED <<execQueue, lspDoc, files, storeVars, ctlVars>>
    /\ UNCHANGED auxVars

\* waitUntilFileFullyChecked throws "coq-lsp did not respond in time", or the
\* didClose cannot be sent: the caller has no handler, so its promise is
\* rejected
LspThrow ==
    /\ ~ReactionsPending
    /\ lspQueue # <<>>
    /\ lspActive
    /\ tx[Head(lspQueue)].op # "goals"
    /\ tx' = [tx EXCEPT ![Head(lspQueue)] = Release([@ EXCEPT !.st = "rejected"])]
    /\ lspQueue' = Unlocked(lspQueue)
    /\ lspActive' = FALSE
    /\ UNCHANGED <<execQueue, lspDoc, files, storeVars, ctlVars>>
    /\ UNCHANGED auxVars

\* the body of getGoalAfterCoqCodeUnsafe continues after an await, up to the
\* next one: appendFileSync after the open, writeFileSync of the baseline after
\* an error diagnostic or after the goals, and the next client call is queued
Continue(i) ==
    /\ ~LspHandOff
    /\ i \in 1..Len(tx)
    /\ tx[i].st = "returned"
    /\ LET t == tx[i]
           old == IF files[t.file] = NoFile THEN <<>> ELSE files[t.file]
       IN  CASE t.op = "open" ->
                  /\ files' = [files EXCEPT ![t.file] =
                                  old \o appendedSuffix(t.coqCode)]
                  /\ tx' = [tx EXCEPT ![i].op = "update", ![i].st = "queued"]
             [] t.op = "update" /\ t.diagnostic.present ->
                  /\ files' = [files EXCEPT ![t.file] = sourceFileContent]
                  /\ tx' = [tx EXCEPT ![i].op = "revert", ![i].st = "queued"]
             [] t.op = "update" /\ ~t.diagnostic.present ->
                  /\ files' = files
                  /\ tx' = [tx EXCEPT ![i].op = "goals", ![i].st = "queued"]
             [] t.op = "goals" ->
                  /\ files' = [files EXCEPT ![t.file] = sourceFileContent]
                  /\ tx' = [tx EXCEPT ![i].op = "revert", ![i].st = "queued"]
    /\ lspQueue' = Append(lspQueue, i)
    /\ UNCHANGED <<lspActive, execQueue, lspDoc, storeVars, ctlVars>>
    /\ UNCHANGED auxVars

\* executeWithTimeout: the holder of the executor mutex races the body against
\* the timer; the body settles first
ExecSettle ==
    /\ ~LspHandOff
    /\ ~BodyReady
    /\ execQueue # <<>>
    /\ tx[Head(execQueue)].st \in {"resolved", "rejected"}
    /\ tx' = [tx EXCEPT ![Head(execQueue)].outer = tx[Head(execQueue)].st]
    /\ execQueue' = Tail(execQueue)
    /\ UNCHANGED <<lspQueue, lspActive, lspDoc, files, storeVars, ctlVars>>
    /\ UNCHANGED auxVars

\* a timer that never fires
TimerNeverFires == FALSE

\* executeWithTimeout: the timer fires first; the body keeps running
ExecTimeout ==
    /\ ~ReactionsPending
    /\ execQueue # <<>>
    /\ tx[Head(execQueue)].outer = "pending"
    /\ tx' = [tx EXCEPT ![Head(execQueue)].outer = "timedout"]
    /\ execQueue' = Tail(execQueue)
    /\ UNCHANGED <<lspQueue, lspActive, lspDoc, files, storeVars, ctlVars>>
    /\ UNCHANGED auxVars

\* the line of the error diagnostic an update may return: the first line of
\* the fragment (the prefix lines, one empty line, then the fragment)
DiagnosticLines == {Len(filePrefixContentOf) + 1}

DocumentVersions == {3}

ExecFiles == {1}

\* the checker answers the running client call
LspAnswer ==
    \E diagnostic \in {NoDiagnostic} \cup {Diagnostic(line) : line \in DiagnosticLines},
       answer \in GoalAnswers :
        LspReturn(diagnostic, answer)

\* the checker answers a goal request with an answer the scan cannot read
LspMalformedAnswer ==
    /\ lspQueue # <<>>
    /\ tx[Head(lspQueue)].op = "goals"
    /\ \E answer \in MalformedAnswers : LspReturn(NoDiagnostic, answer)

BodyContinue == \E i \in 1..Len(tx) : Continue(i)

ExecCall ==
    /\ ~ReactionsPending
    /\ Len(tx) < MaxTx
    /\ \E file \in ExecFiles, documentVersion \in DocumentVersions :
          ExecRequest(file, prepareProofToCheck(ExecProof), documentVersion)
    /\ UNCHANGED <<storeVars, ctlVars>>
    /\ UNCHANGED auxVars

\* withTextDocument's finally: closeTextDocument is called on the client by
\* a caller that goes through no executor
CloseCall ==
    /\ ~ReactionsPending
    /\ Len(tx) < MaxTx
    /\ \E file \in ExecFiles :
          tx' = Append(tx, [NewTx(file, <<>>, 0) EXCEPT !.op = "close",
                                                        !.outer = "none",
                                                        !.awaited = FALSE])
    /\ lspQueue' = Append(lspQueue, Len(tx) + 1)
    /\ UNCHANGED <<lspActive, execQueue, lspDoc, files, storeVars, ctlVars>>
    /\ UNCHANGED auxVars

ExecNext ==
    \/ ExecCall
    \/ CloseCall
    \/ LspBegin
    \/ LspAnswer
    \/ LspThrow
    \/ BodyContinue
    \/ ExecSettle
    \/ ExecTimeout

\* the executor on a scratch file that holds the baseline
ExecFilesInit ==
    /\ sessions = <<>>
    /\ nextSessionId = 0
    /\ files = [s \in SessionIds |-> sourceFileContent]
    /\ commitLog = {}
    /\ lastCommit = NoCommit
    /\ nCommits = 0

InitExec == ExecFilesInit /\ ExecInit /\ CtlInit /\ AuxInit

SpecExec == InitExec /\ [][ExecNext]_vars

\* one caller that awaits each getGoalAfterCoqCode before it makes the next,
\* with a checker whose answers to the goal request may be malformed
GoalsCall ==
    /\ \A i \in 1..Len(tx) :
          tx[i].st \in {"resolved", "rejected"} /\ tx[i].outer # "pending"
    /\ ExecCall

GoalsNext ==
    \/ GoalsCall
    \/ LspBegin
    \/ LspAnswer
    \/ LspMalformedAnswer
    \/ LspThrow
    \/ BodyContinue
    \/ ExecSettle

SpecGoals == InitExec /\ [][GoalsNext]_vars

----------------------------------------------------------------------------
(* CoqLspClientImpl.withTextDocument: open, the block, and the close of the
   finally clause. A call is a record of tx that goes through no executor
   (outer is "none") and whose caller awaits it; goal holds what the block
   ended with and result what the call hands to its caller *)

IsWith(t) == t.outer = "none" /\ t.awaited

\* the value the block returns, and the exceptions of the block, of
\* openTextDocument and of closeTextDocument
BlockValue == OkGoals(<<"block">>)
BlockError == ErrGoals("BlockError", "", <<>>)
OpenError == ErrGoals("OpenError", "", <<>>)
CloseError == ErrGoals("CloseError", "", <<>>)

\* a try without finally: an exception of the block leaves the call at once
AfterBlockWithoutFinally(t, outcome) ==
    IF outcome.ok THEN [t EXCEPT !.goal = outcome, !.op = "close", !.st = "queued"]
    ELSE [t EXCEPT !.goal = outcome, !.st = "rejected", !.result = outcome]

\* try { return await block(diagnostic); } finally { await closeTextDocument }:
\* however the block ends, closeTextDocument is called next
AfterBlock(t, outcome) ==
    [t EXCEPT !.goal = outcome, !.op = "close", !.st = "queued"]

\* withTextDocument is called: openTextDocument queues on the client mutex
WithCall ==
    /\ Len(tx) < MaxTx
    /\ \E file \in ExecFiles :
          tx' = Append(tx, [NewTx(file, <<>>, 0) EXCEPT !.outer = "none"])
    /\ lspQueue' = Append(lspQueue, Len(tx) + 1)
    /\ UNCHANGED <<lspActive, execQueue, lspDoc, files, storeVars, ctlVars>>
    /\ UNCHANGED auxVars

\* the client call of a withTextDocument call that holds the client mutex
WithActive(op) ==
    /\ lspQueue # <<>>
    /\ lspActive
    /\ IsWith(tx[Head(lspQueue)])
    /\ tx[Head(lspQueue)].op = op

\* openTextDocument returns its diagnostic and the block starts
WithOpenReturns ==
    /\ WithActive("open")
    /\ tx' = [tx EXCEPT ![Head(lspQueue)].op = "block",
                        ![Head(lspQueue)].st = "running"]
    /\ lspQueue' = Unlocked(lspQueue)
    /\ lspActive' = FALSE
    /\ UNCHANGED <<execQueue, lspDoc, files, storeVars, ctlVars>>
    /\ UNCHANGED auxVars

\* openTextDocument throws (the wait for the checker timed out): the call is
\* before the try, so neither the block nor the close runs
WithOpenThrows ==
    /\ WithActive("open")
    /\ tx' = [tx EXCEPT ![Head(lspQueue)].st = "rejected",
                        ![Head(lspQueue)].result = OpenError]
    /\ lspQueue' = Unlocked(lspQueue)
    /\ lspActive' = FALSE
    /\ UNCHANGED <<execQueue, lspDoc, files, storeVars, ctlVars>>
    /\ UNCHANGED auxVars

\* the block returns or throws, and the finally clause queues the close
WithBlockEnds ==
    \E i \in 1..Len(tx), outcome \in {BlockValue, BlockError} :
        /\ IsWith(tx[i])
        /\ tx[i].op = "block"
        /\ tx[i].st = "running"
        /\ tx' = [tx EXCEPT ![i] = AfterBlock(@, outcome)]
        /\ lspQueue' = IF AfterBlock(tx[i], outcome).st = "queued"
                       THEN Append(lspQueue, i) ELSE lspQueue
        /\ UNCHANGED <<lspActive, execQueue, lspDoc, files, storeVars, ctlVars>>
        /\ UNCHANGED auxVars

\* closeTextDocument returns: the call ends as the block ended
WithCloseReturns ==
    /\ WithActive("close")
    /\ tx' = [tx EXCEPT ![Head(lspQueue)].st =
                            IF tx[Head(lspQueue)].goal.ok THEN "resolved"
                            ELSE "rejected",
                        ![Head(lspQueue)].result = tx[Head(lspQueue)].goal]
    /\ lspQueue' = Unlocked(lspQueue)
    /\ lspActive' = FALSE
    /\ UNCHANGED <<execQueue, lspDoc, files, storeVars, ctlVars>>
    /\ UNCHANGED auxVars

\* closeTextDocument throws inside the finally clause: its exception replaces
\* what the block ended with
WithCloseThrows ==
    /\ WithActive("close")
    /\ tx' = [tx EXCEPT ![Head(lspQueue)].st = "rejected",
                        ![Head(lspQueue)].result = CloseError]
    /\ lspQueue' = Unlocked(lspQueue)
    /\ lspActive' = FALSE
    /\ UNCHANGED <<execQueue, lspDoc, files, storeVars, ctlVars>>
    /\ UNCHANGED auxVars

WithNext ==
    \/ WithCall
    \/ LspBegin
    \/ WithOpenReturns
    \/ WithOpenThrows
    \/ WithBlockEnds
    \/ WithCloseReturns
    \/ WithCloseThrows

SpecWith == InitExec /\ [][WithNext]_vars

----------------------------------------------------------------------------
(* mcpServer.ts: the /mcp endpoints and the transports map *)

\* the session ids randomUUID generates, in the order they are generated
TransportIds == <<"t1", "t2", "t3", "t4">>

\* property names every object inherits from Object.prototype
InheritedKeys == {"constructor"}

\* the values of the mcp-session-id header: absent, empty, an inherited
\* property name, an id no transport ever had, and the ids generated
SessionIdHeaders ==
    {NoHeader, "", "constructor", "stale"} \cup
    {TransportIds[k] : k \in 1..MaxTransports}

\* the truthiness of a header value
Truthy(header) == header \notin {NoHeader, ""}

\* transports[sessionId] on the object literal {}: an own key holds a
\* transport, and a name inherited from Object.prototype holds what the
\* prototype holds
TransportsLookup(sessionId) ==
    IF sessionId \in transports THEN "transport"
    ELSE IF sessionId \in InheritedKeys THEN "inherited"
    ELSE "undefined"

\* transport.handleRequest(req, res, ...) on what the lookup returned: a
\* transport handles the request, any other value has no handleRequest and
\* the call throws a TypeError, so that no response is sent
HandleRequest(found) == IF found = "transport" THEN "handled" ELSE "threw"

McpRespond(method, sessionId, isInitialize, status, created) ==
    mcpResponse' = [method |-> method, sessionId |-> sessionId,
                    isInitialize |-> isInitialize,
                    registered |-> sessionId \in transports,
                    status |-> status, created |-> created]

\* app.post("/mcp"): reuse the transport the header names, or create one for
\* an initialize request without session id (handleRequest then generates the
\* id and onsessioninitialized stores the transport), or answer 400
McpPost(sessionId, isInitialize) ==
    /\ LET found == TransportsLookup(sessionId)
       IN  IF Truthy(sessionId) /\ found # "undefined"
           THEN /\ McpRespond("POST", sessionId, isInitialize,
                              HandleRequest(found), NoHeader)
                /\ UNCHANGED <<transports, nextTransportId, mcpClosed>>
           ELSE IF ~Truthy(sessionId) /\ isInitialize
           THEN /\ nextTransportId < MaxTransports
                /\ transports' = transports \cup {TransportIds[nextTransportId + 1]}
                /\ nextTransportId' = nextTransportId + 1
                /\ McpRespond("POST", sessionId, isInitialize, "handled",
                              TransportIds[nextTransportId + 1])
                /\ UNCHANGED mcpClosed
           ELSE /\ McpRespond("POST", sessionId, isInitialize, "400", NoHeader)
                /\ UNCHANGED <<transports, nextTransportId, mcpClosed>>
    /\ UNCHANGED <<storeVars, files, execVars, ctlVars>>
    /\ UNCHANGED <<wait, requests, storeQueue, closeOutcome>>

\* handleSessionRequest for GET and DELETE; the transport that handles a
\* DELETE closes, and its onclose removes it from the map
handleSessionRequest(method, sessionId) ==
    /\ LET found == TransportsLookup(sessionId)
       IN  IF ~Truthy(sessionId) \/ found = "undefined"
           THEN /\ McpRespond(method, sessionId, FALSE, "400", NoHeader)
                /\ UNCHANGED <<transports, mcpClosed>>
           ELSE /\ McpRespond(method, sessionId, FALSE, HandleRequest(found),
                              NoHeader)
                /\ IF method = "DELETE" /\ found = "transport"
                   THEN /\ transports' = transports \ {sessionId}
                        /\ mcpClosed' = mcpClosed \cup {sessionId}
                   ELSE UNCHANGED <<transports, mcpClosed>>
    /\ UNCHANGED nextTransportId
    /\ UNCHANGED <<storeVars, files, execVars, ctlVars>>
    /\ UNCHANGED <<wait, requests, storeQueue, closeOutcome>>

\* transport.onclose: a transport that closes is deleted from the map
TransportCloses(sessionId) ==
    /\ sessionId \in transports
    /\ transports' = transports \ {sessionId}
    /\ mcpClosed' = mcpClosed \cup {sessionId}
    /\ UNCHANGED <<nextTransportId, mcpResponse>>
    /\ UNCHANGED <<storeVars, files, execVars, ctlVars>>
    /\ UNCHANGED <<wait, requests, storeQueue, closeOutcome>>

McpPostRequest ==
    \E sessionId \in SessionIdHeaders, isInitialize \in BOOLEAN :
        McpPost(sessionId, isInitialize)

McpSessionRequest ==
    \E method \in {"GET", "DELETE"}, sessionId \in SessionIdHeaders :
        handleSessionRequest(method, sessionId)

McpClose == \E sessionId \in transports : TransportCloses(sessionId)

McpNext == McpPostRequest \/ McpSessionRequest \/ McpClose

InitMcp == StoreInit /\ ExecInit /\ CtlInit /\ AuxInit

SpecMcp == InitMcp /\ [][McpNext]_vars

\* the event loop runs every continuation that is ready (the hand-off of
\* a mutex, the continuation of a body, the settling of a race) and every
\* timer that was set fires (the timer of executeWithTimeout, the poll loop
\* of waitUntilFileFullyChecked); nothing makes the checker answer
ExecFairness ==
    /\ WF_vars(LspBegin)
    /\ WF_vars(BodyContinue)
    /\ WF_vars(ExecSettle)
    /\ WF_vars(ExecTimeout)
    /\ WF_vars(LspThrow)

SpecExecLive == InitExec /\ [][ExecNext]_vars /\ ExecFairness

----------------------------------------------------------------------------
(* CoqLspClientImpl.waitUntilFileFullyChecked, signal by signal *)

\* a Diagnostic of a publication: its range starts at line, severity 1 is error
LspDiagnostic(line, severity) ==
    [line |-> line, character |-> 0, severity |-> severity]

\* an LSP Diagnostic whose range starts at line:character
LspDiagnosticAt(line, character, severity) ==
    [line |-> line, character |-> character, severity |-> severity]

\* the DiagnosticMessage made of a diagnostic: its message and its range
DiagnosticMessage(diag) ==
    [Diagnostic(diag.line) EXCEPT
        !.range = <<<<diag.line, diag.character>>,
                    <<diag.line, diag.character + 1>>>>]

\* the first error starting at or after the position, line and character
filterDiagnosticsByPosition(diagnostics, positionLine, positionCharacter) ==
    LET errors == SelectSeq(diagnostics,
                            LAMBDA diag : /\ \/ diag.line > positionLine
                                             \/ /\ diag.line = positionLine
                                                /\ diag.character >= positionCharacter
                                          /\ diag.severity = 1)
    IN  IF errors = <<>> THEN NoDiagnostic ELSE DiagnosticMessage(errors[1])

\* filterDiagnostics: the first error starting at or after the position's line
filterDiagnostics(diagnostics, positionLine) ==
    LET errors == SelectSeq(diagnostics,
                            LAMBDA diag : /\ diag.line >= positionLine
                                          /\ diag.severity = 1)
    IN  IF errors = <<>> THEN NoDiagnostic ELSE DiagnosticMessage(errors[1])

\* getTextEndPosition(oldDocumentText).line for the baseline
OldEndLine == Len(filePrefixContentOf) - 1

\* getTextEndPosition(oldDocumentText).character for the baseline: the
\* length of its last line
OldEndCharacter == Len(filePrefixContentOf[Len(filePrefixContentOf)])

\* lastDocumentEndPosition ?? Position.create(0, 0): an open has no anchor
AnchorLine(w) == IF w.op = "update" THEN OldEndLine ELSE 0

AnchorCharacter(w) == IF w.op = "update" THEN OldEndCharacter ELSE 0

\* the condition of the poll loop: one flag still set
PendingBoth(w) == w.pendingProgress /\ w.pendingDiagnostic

Pending(w) == w.pendingProgress \/ w.pendingDiagnostic

\* the signals received, after one more
Seen(seen, signal) == [seen EXCEPT !.first = IF @ = "" THEN signal ELSE @]

\* openTextDocumentUnsafe / updateTextDocumentUnsafe enter the wait: the
\* notification is sent, both flags are set and the handlers are registered
WaitBegin(op, version) ==
    /\ wait.outcome # "waiting"
    /\ wait' = [NoWait EXCEPT !.op = op, !.version = version,
                              !.pendingProgress = TRUE,
                              !.pendingDiagnostic = TRUE,
                              !.timeout = MaxPolls, !.outcome = "waiting"]
    /\ UNCHANGED <<storeVars, files, execVars, ctlVars, requests, storeQueue,
                   closeOutcome, mcpVars>>

\* a $/logTrace notification arrives; message is a sequence of phrases
LogTrace(message) ==
    /\ wait.outcome = "waiting"
    /\ wait' = IF \E k \in 1..Len(message) : message[k] = "document fully checked"
               THEN [wait EXCEPT !.pendingProgress = FALSE,
                                 !.seen = [Seen(@, "progress") EXCEPT
                                             !.progress = TRUE]]
               ELSE wait
    /\ UNCHANGED <<storeVars, files, execVars, ctlVars, requests, storeQueue,
                   closeOutcome, mcpVars>>

\* a textDocument/publishDiagnostics notification arrives
PublishDiagnostics(uri, version, diagnostics) ==
    /\ wait.outcome = "waiting"
    /\ wait' = IF uri = "doc"
               THEN LET tail == /\ wait.op = "update"
                                /\ filterDiagnostics(diagnostics,
                                                     OldEndLine).present
                    IN  [wait EXCEPT
                           !.pendingDiagnostic = FALSE,
                           !.awaitedDiagnostics = <<diagnostics>>,
                           !.awaitedVersion = version,
                           !.pendingProgress = IF tail THEN FALSE ELSE @,
                           !.seen = [Seen(@, "diagnostics") EXCEPT
                                       !.diagnostics = TRUE,
                                       !.awaitedVersion =
                                           @ \/ version = wait.version,
                                       !.tailError = @ \/ tail]]
               ELSE wait
    /\ UNCHANGED <<storeVars, files, execVars, ctlVars, requests, storeQueue,
                   closeOutcome, mcpVars>>

\* a wait that gives up only when no diagnostics were published
GivesUpWithoutDiagnostics(w) == w.awaitedDiagnostics = <<>>

\* the condition under which the wait throws after its loop: the time is
\* spent, a flag is still set, or no diagnostics were received
GivesUp(w) ==
    \/ w.timeout <= 0
    \/ Pending(w)
    \/ w.awaitedDiagnostics = <<>>

\* the sleep of the poll loop ends: the time left shrinks, and the loop goes
\* on, or the wait throws "coq-lsp did not respond in time", or it returns
\* the filtered diagnostics of the latest publication
Wake ==
    /\ wait.outcome = "waiting"
    /\ LET w == [wait EXCEPT !.timeout = @ - 1]
       IN  wait' =
             IF w.timeout > 0 /\ Pending(w) THEN w
             ELSE IF GivesUp(w)
             THEN [w EXCEPT !.outcome = "thrown"]
             ELSE [w EXCEPT !.outcome = "returned",
                            !.result = filterDiagnostics(w.awaitedDiagnostics[1],
                                                         AnchorLine(w))]
    /\ UNCHANGED <<storeVars, files, execVars, ctlVars, requests, storeQueue,
                   closeOutcome, mcpVars>>

\* the operations that wait, and what the checker may send
WaitOps == {"open", "update"}

Versions == 1..MaxVersion

Uris == {"doc", "other"}

TraceMessages == {<<"[check]", "document fully checked">>, <<"[check]", "resuming">>}

PublishedDiagnostics ==
    {<<>>, <<LspDiagnostic(0, 1)>>, <<LspDiagnostic(OldEndLine + 2, 1)>>,
     <<LspDiagnostic(OldEndLine + 2, 2)>>,
     <<LspDiagnosticAt(OldEndLine, 0, 1), LspDiagnostic(OldEndLine + 3, 1)>>}

WaitCall == \E op \in WaitOps, version \in Versions : WaitBegin(op, version)

WaitTrace == \E message \in TraceMessages : LogTrace(message)

WaitDiagnostics ==
    \E uri \in Uris, version \in Versions, diagnostics \in PublishedDiagnostics :
        PublishDiagnostics(uri, version, diagnostics)

WaitNext == WaitCall \/ WaitTrace \/ WaitDiagnostics \/ Wake

\* the client alone, with no document open
InitWait == StoreInit /\ ExecInit /\ CtlInit /\ AuxInit

SpecWait == InitWait /\ [][WaitNext]_vars

----------------------------------------------------------------------------
(* CoqProjectController.checkProofInFile, one request at a time *)

Count(field, sessionId) ==
    [counts EXCEPT ![sessionId][field] = @ + 1]

\* the session object the handler holds is still the one in the map
Live(sessionId) == sessionId \in DOMAIN sessions

\* check-proof arrives: getSession, the two lookups, and the first
\* checkCoqProof up to its await; a request may need two transactions (the
\* attempted proof, then its valid prefix)
CheckProofBegin(sessionId, proof, proofVersionHash) ==
    /\ ~ReactionsPending
    /\ handler.pc = "idle"
    /\ IF ~Live(sessionId)
       THEN /\ handler' = IdleHandler(Response(FALSE, "Session not found", <<>>,
                                               NoHash, -1, ""))
            /\ UNCHANGED <<tx, lspQueue, execQueue, lspActive, lspDoc, files>>
       ELSE IF proofVersionHash \notin DOMAIN sessions[sessionId].proofVersions
       THEN /\ handler' = IdleHandler(Response(FALSE, "Proof version not found",
                                               <<>>, NoHash, -1, ""))
            /\ UNCHANGED <<tx, lspQueue, execQueue, lspActive, lspDoc, files>>
       ELSE /\ Len(tx) + 2 <= MaxTx
            /\ ExecRequest(sessionId, prepareProofToCheck(proof),
                           sessions[sessionId].auxFileVersionNumber)
            /\ handler' = [IdleHandler(NoResponse) EXCEPT
                             !.pc = "primary",
                             !.sessionId = sessionId,
                             !.preparedProof = prepareProofToCheck(proof),
                             !.proofVersionHash = proofVersionHash,
                             !.counter = sessions[sessionId].auxFileVersionNumber,
                             !.tx = Len(tx) + 1]
    /\ UNCHANGED <<sessions, nextSessionId, commitLog, lastCommit, nCommits, counts>>
    /\ UNCHANGED auxVars

\* the first checkCoqProof returns: the counter advances by two and
\* commitProofPortion is called with counter + 1, queueing on the store's mutex
CheckProofResume ==
    /\ ~LspHandOff /\ ~BodyReady /\ ~RaceReady
    /\ handler.pc = "primary"
    /\ tx[handler.tx].outer # "pending"
    /\ LET counter == AdvancedVersion(handler.counter)
       IN  /\ handler' = [handler EXCEPT !.pc = "commit",
                                         !.result = checkCoqProof(tx[handler.tx]),
                                         !.counter = counter,
                                         !.newVersion = counter + 1]
           /\ sessions' = IF Live(handler.sessionId)
                          THEN [sessions EXCEPT
                                  ![handler.sessionId].auxFileVersionNumber = counter]
                          ELSE sessions
    /\ counts' = Count("transactions", handler.sessionId)
    /\ tx' = [tx EXCEPT ![handler.tx] = Release([@ EXCEPT !.awaited = FALSE])]
    /\ UNCHANGED <<nextSessionId, files, commitLog, lastCommit, nCommits>>
    /\ UNCHANGED <<lspQueue, lspActive, execQueue, lspDoc>>
    /\ UNCHANGED auxVars

\* the slice of the committed content before the line of the error
ValidProofPrefixLines(proofContent, errorousLineNumber) ==
    Slice0(proofContent,
           errorousLineNumber - (Len(filePrefixContentOf) + 1) - 1)

\* commitProofPortion runs and the handler goes on to its response, or, for an
\* error with a location, to the check of the valid prefix
CheckProofCommit ==
    /\ ~LspHandOff /\ ~BodyReady /\ ~RaceReady
    /\ handler.pc = "commit"
    /\ LET h == handler
           lines == Split(h.preparedProof, "\n")
           hash == CommitHash(sessions, h.sessionId, lines, h.proofVersionHash)
           committed == CommitSessions(sessions, h.sessionId, lines, h.newVersion,
                                       h.proofVersionHash)
           admit == Includes(h.preparedProof, "admit", ".")
           Mark(version) ==
               [committed EXCEPT ![h.sessionId].proofVersions[hash] = version]
           Reply(response, ss) ==
               /\ handler' = IdleHandler(response)
               /\ sessions' = ss
               /\ UNCHANGED <<tx, lspQueue, execQueue, lspActive, lspDoc, files>>
       IN  /\ counts' = IF hash = NoHash THEN counts ELSE Count("commits", h.sessionId)
           /\ IF hash = NoHash
              THEN Reply(FailedResponse("Failed to commit proof portion"), committed)
              ELSE LET version == committed[h.sessionId].proofVersions[hash]
                   IN
                   IF h.result.ok /\ Len(h.result.goals) = 0 /\ ~admit
                   THEN Reply(CompleteResponse(hash),
                              Mark(MarkComplete(version, lines)))
                   ELSE IF h.result.ok /\ Len(h.result.goals) = 0
                   THEN Reply(Response(TRUE, "Proof is incomplete but valid so far. ",
                                       <<>>, NoHash, -1, ""), committed)
                   ELSE IF h.result.ok
                   THEN Reply(Response(TRUE, "Proof is incomplete but valid so far",
                                       h.result.goals, hash, -1, ""),
                              Mark(MarkValidSoFar(version, h.preparedProof, lines)))
                   ELSE IF h.result.name = "stack_subgoals"
                   THEN Reply(StackResponse(hash, h.result.json),
                              Mark(MarkValidSoFar(version, h.preparedProof, lines)))
                   ELSE IF h.result.location = <<>> \/ h.result.location[1][1] = 0
                   THEN Reply(FailedResponse("Errorous line not found"), committed)
                   ELSE LET valid == ValidProofPrefixLines(version.proofContent,
                                                           h.result.location[1][1])
                            prepared == prepareProofToCheck(Join(valid, "\n"))
                        IN  /\ ExecRequest(h.sessionId, prepared, h.newVersion)
                            /\ sessions' = committed
                            /\ handler' = [h EXCEPT
                                             !.pc = "validPrefix",
                                             !.updatedProofVersionHash = hash,
                                             !.validProofPrefixLines = valid,
                                             !.errorousLineNumber =
                                                 h.result.location[1][1],
                                             !.counter = h.newVersion,
                                             !.tx = Len(tx) + 1]
    /\ UNCHANGED <<nextSessionId, commitLog, lastCommit, nCommits>>
    /\ UNCHANGED auxVars

\* the check of the valid prefix returns: an error is thrown to the catch
\* clause, otherwise the counter advances and the prefix is committed
CheckProofResumeValidPrefix ==
    /\ ~LspHandOff /\ ~BodyReady /\ ~RaceReady
    /\ handler.pc = "validPrefix"
    /\ tx[handler.tx].outer # "pending"
    /\ LET result == checkCoqProof(tx[handler.tx])
           counter == AdvancedVersion(handler.counter)
       IN  IF ~result.ok
           THEN /\ handler' = IdleHandler(
                                 FailedResponse("Failed to check valid proof portion"))
                /\ UNCHANGED sessions
           ELSE /\ handler' = [handler EXCEPT !.pc = "commitValidPrefix",
                                              !.result = result,
                                              !.counter = counter,
                                              !.newVersion = counter + 1]
                /\ sessions' = IF Live(handler.sessionId)
                               THEN [sessions EXCEPT
                                       ![handler.sessionId].auxFileVersionNumber =
                                           counter]
                               ELSE sessions
    /\ counts' = Count("transactions", handler.sessionId)
    /\ tx' = [tx EXCEPT ![handler.tx] = Release([@ EXCEPT !.awaited = FALSE])]
    /\ UNCHANGED <<nextSessionId, files, commitLog, lastCommit, nCommits>>
    /\ UNCHANGED <<lspQueue, lspActive, execQueue, lspDoc>>
    /\ UNCHANGED auxVars

\* the valid prefix is committed under the version of the attempted proof
CheckProofCommitValidPrefix ==
    /\ ~LspHandOff /\ ~BodyReady /\ ~RaceReady
    /\ handler.pc = "commitValidPrefix"
    /\ LET h == handler
           hash == CommitHash(sessions, h.sessionId, h.validProofPrefixLines,
                              h.updatedProofVersionHash)
       IN  /\ sessions' = CommitSessions(sessions, h.sessionId,
                                         h.validProofPrefixLines, h.newVersion,
                                         h.updatedProofVersionHash)
           /\ counts' = IF hash = NoHash THEN counts ELSE Count("commits", h.sessionId)
           /\ handler' = IdleHandler(
                 IF hash = NoHash
                 THEN FailedResponse("Failed to commit valid proof portion")
                 ELSE ErrorsResponse(h.result.goals, hash, h.errorousLineNumber))
    /\ UNCHANGED <<nextSessionId, files, execVars, commitLog, lastCommit, nCommits>>
    /\ UNCHANGED auxVars

CheckProof ==
    \E sessionId \in SessionIds, proof \in Proofs :
        \E proofVersionHash \in (IF Live(sessionId)
                                 THEN DOMAIN sessions[sessionId].proofVersions
                                 ELSE {}) \cup {UnknownHash} :
            CheckProofBegin(sessionId, proof, proofVersionHash)

\* an endpoint that reads the store answers: the handler has no await after
\* getSession, so the request is one step. The answer depends on the store
\* alone, which no step of the executor touches, so the request is taken
\* while the executor is at rest
Answer(request, response) ==
    /\ ~ReactionsPending
    /\ handler.pc = "idle"
    /\ lspQueue = <<>> /\ execQueue = <<>>
    /\ handler' = [IdleHandler(response) EXCEPT !.request = request]
    /\ UNCHANGED <<storeVars, files, execVars, counts>>
    /\ UNCHANGED auxVars

\* an object without success flag and message, holding key: value
Payload(key, value) ==
    [Response(FALSE, "", <<>>, value, -1, "") EXCEPT !.payload = key]

SessionNotFound == Response(FALSE, "Session not found", <<>>, NoHash, -1, "")

\* GET /session-theorem: the content of a version joined into the proof text
retrieveTheoremFromSession(sessionId, proofVersionHash) ==
    Answer("session-theorem",
           IF ~Live(sessionId) THEN SessionNotFound
           ELSE IF proofVersionHash \notin DOMAIN sessions[sessionId].proofVersions
           THEN Response(FALSE, "Proof version not found", <<>>, NoHash, -1, "")
           ELSE Payload("theoremProof", proofVersionHash))

\* GET /proof-version-by-hash: the version the map holds under the hash,
\* undefined (NoHash here) when it holds none
getProofVersionByHash(sessionId, proofVersionHash) ==
    Answer("proof-version-by-hash",
           IF ~Live(sessionId) THEN SessionNotFound
           ELSE IF proofVersionHash \in DOMAIN sessions[sessionId].proofVersions
           THEN Payload("proofVersion", proofVersionHash)
           ELSE Payload("proofVersion", NoHash))

\* GET /proof-history: the tree of versions under the root
getProofHistory(sessionId) ==
    Answer("proof-history",
           IF ~Live(sessionId) THEN SessionNotFound
           ELSE LET roots == SelectSeq(sessions[sessionId].keyOrder,
                                 LAMBDA h : sessions[sessionId].proofVersions[h]
                                                .parentHash = NoHash)
                IN  IF roots = <<>>
                    THEN Response(FALSE, "No root proof version found", <<>>,
                                  NoHash, -1, "")
                    ELSE [Response(TRUE, "", <<>>, roots[1], -1, "")
                            EXCEPT !.payload = "proofTree"])

\* the hashes a request may name: those of the session and an unknown one
RequestHashes(sessionId) ==
    (IF Live(sessionId) THEN DOMAIN sessions[sessionId].proofVersions ELSE {})
        \cup {UnknownHash}

SessionTheorem ==
    \E sessionId \in SessionIds :
        \E proofVersionHash \in RequestHashes(sessionId) :
            retrieveTheoremFromSession(sessionId, proofVersionHash)

ProofVersionByHash ==
    \E sessionId \in SessionIds :
        \E proofVersionHash \in RequestHashes(sessionId) :
            getProofVersionByHash(sessionId, proofVersionHash)

ProofHistory == \E sessionId \in SessionIds : getProofHistory(sessionId)

Init == StoreInit /\ ExecInit /\ CtlInit /\ AuxInit

Next ==
    \/ StartSession
    \/ StoreClose
    \/ CheckProof
    \/ CheckProofResume
    \/ CheckProofCommit
    \/ CheckProofResumeValidPrefix
    \/ CheckProofCommitValidPrefix
    \/ SessionTheorem
    \/ ProofVersionByHash
    \/ ProofHistory
    \/ LspBegin
    \/ LspAnswer
    \/ LspThrow
    \/ BodyContinue
    \/ ExecSettle
    \/ ExecTimeout

Spec == Init /\ [][Next]_vars

----------------------------------------------------------------------------
(* Requests that overlap: the suspension points of checkProofInFile and of
   startSession. A handler is suspended at getSession and commitProofPortion
   (on the registry's mutex) and at checkCoqProof (on the executor); the
   transaction itself is reduced to the moment it returns. startSession
   holds the registry's mutex across its two reads of the source file. *)

ConcurrentRequest(kind, sessionId) ==
    [kind |-> kind, pc |-> "queued", sessionId |-> sessionId, newVersion |-> 0,
     hash |-> NoHash, located |-> FALSE]

StoreCall(op, request) == [op |-> op, request |-> request, running |-> FALSE]

\* the head of the registry's mutex can run without waiting for anything
StoreReady == storeQueue # <<>> /\ ~Head(storeQueue).running

\* a handler continues after its getSession or its commitProofPortion
ConcurrentReactions == StoreReady

\* GET /start-session arrives: startSession queues on the registry's mutex
StartSessionCall ==
    /\ ~ConcurrentReactions
    /\ Len(requests) < MaxRequests
    /\ requests' = Append(requests, ConcurrentRequest("start-session", 0))
    /\ storeQueue' = Append(storeQueue, StoreCall("startSession", Len(requests) + 1))
    /\ UNCHANGED <<storeVars, files, execVars, ctlVars, wait, closeOutcome, mcpVars>>

\* GET /check-proof arrives: getSession queues on the registry's mutex
CheckProofCall(sessionId) ==
    /\ ~ConcurrentReactions
    /\ Len(requests) < MaxRequests
    /\ requests' = Append(requests, ConcurrentRequest("check-proof", sessionId))
    /\ storeQueue' = Append(storeQueue, StoreCall("getSession", Len(requests) + 1))
    /\ UNCHANGED <<storeVars, files, execVars, ctlVars, wait, closeOutcome, mcpVars>>

\* startSession gets the mutex and awaits getSourceFileContentPrefix
StartSessionEnter ==
    /\ StoreReady
    /\ Head(storeQueue).op = "startSession"
    /\ storeQueue' = [storeQueue EXCEPT ![1].running = TRUE]
    /\ requests' = [requests EXCEPT ![Head(storeQueue).request].pc = "reading"]
    /\ UNCHANGED <<storeVars, files, execVars, ctlVars, wait, closeOutcome, mcpVars>>

\* the reads of startSession end: the theorem is found and the session is
\* registered, or a read throws and the mutex is released with no session
StartSessionLeave(found) ==
    /\ storeQueue # <<>>
    /\ Head(storeQueue).op = "startSession"
    /\ Head(storeQueue).running
    /\ found => nextSessionId < MaxSessions
    /\ LET sessionId == nextSessionId + 1
           session == NewSession(sessionId)
       IN  IF found
           THEN /\ files' = [files EXCEPT ![sessionId] =
                                Join(filePrefixContentOf, "\n")]
                /\ sessions' = [s \in DOMAIN sessions \cup {sessionId} |->
                                   IF s = sessionId THEN session ELSE sessions[s]]
                /\ nextSessionId' = sessionId
           ELSE UNCHANGED <<sessions, files, nextSessionId>>
    /\ requests' = [requests EXCEPT ![Head(storeQueue).request].pc = "done"]
    /\ storeQueue' = Tail(storeQueue)
    /\ UNCHANGED <<commitLog, lastCommit, nCommits>>
    /\ UNCHANGED <<execVars, ctlVars, wait, closeOutcome, mcpVars>>

\* getSession runs: an unknown session ends the request, otherwise
\* checkCoqProof is called and the handler awaits it behind the calls made
\* before
GetSessionRuns ==
    /\ StoreReady
    /\ Head(storeQueue).op = "getSession"
    /\ LET r == Head(storeQueue).request
       IN  IF Live(requests[r].sessionId)
           THEN /\ requests' = [requests EXCEPT ![r].pc = "checking"]
                /\ execQueue' = Append(execQueue, r)
           ELSE /\ requests' = [requests EXCEPT ![r].pc = "done"]
                /\ UNCHANGED execQueue
    /\ storeQueue' = Tail(storeQueue)
    /\ UNCHANGED <<storeVars, files, tx, lspQueue, lspActive, lspDoc>>
    /\ UNCHANGED <<ctlVars, wait, closeOutcome, mcpVars>>

\* checkCoqProof returns to the handler whose call is first on the executor:
\* the counter advances by two and commitProofPortion is called with
\* counter + 1, queueing on the registry's mutex; after the check of a valid
\* prefix an error is thrown to the catch clause instead
CheckReturns(located, ok) ==
    /\ ~ConcurrentReactions
    /\ execQueue # <<>>
    /\ LET r == Head(execQueue)
           sessionId == requests[r].sessionId
           counter == AdvancedVersion(sessions[sessionId].auxFileVersionNumber)
       IN  IF requests[r].pc = "checkingValidPrefix" /\ ~ok
           THEN /\ requests' = [requests EXCEPT ![r].pc = "done"]
                /\ UNCHANGED <<sessions, storeQueue>>
           ELSE /\ requests' = [requests EXCEPT
                                  ![r].pc = IF @ = "checking" THEN "commit"
                                            ELSE "commitValidPrefix",
                                  ![r].newVersion = counter + 1,
                                  ![r].located = located /\ requests[r].pc = "checking"]
                /\ sessions' = [sessions EXCEPT
                                  ![sessionId].auxFileVersionNumber = counter]
                /\ storeQueue' = Append(storeQueue, StoreCall("commit", r))
    /\ execQueue' = Tail(execQueue)
    /\ UNCHANGED <<nextSessionId, commitLog, lastCommit, nCommits, files>>
    /\ UNCHANGED <<tx, lspQueue, lspActive, lspDoc, ctlVars, wait, closeOutcome, mcpVars>>

\* commitProofPortion runs: the portion is committed under newVersion; for an
\* error with a location the handler goes on to check the valid prefix
CommitRuns ==
    /\ StoreReady
    /\ Head(storeQueue).op = "commit"
    /\ LET r == Head(storeQueue).request
           h == requests[r]
           primary == h.pc = "commit"
           proof == Split(prepareProofToCheck(ExecProof), "\n")
           lines == IF primary THEN proof ELSE SubSeq(proof, 1, 1)
           parent == IF primary THEN RootHash ELSE h.hash
           hash == CommitHash(sessions, h.sessionId, lines, parent)
       IN  /\ sessions' = CommitSessions(sessions, h.sessionId, lines,
                                         h.newVersion, parent)
           /\ IF primary /\ h.located /\ hash # NoHash
              THEN /\ requests' = [requests EXCEPT
                                     ![r].pc = "checkingValidPrefix",
                                     ![r].hash = hash]
                   /\ execQueue' = Append(execQueue, r)
              ELSE /\ requests' = [requests EXCEPT ![r].pc = "done",
                                                   ![r].hash = hash]
                   /\ UNCHANGED execQueue
    /\ storeQueue' = Tail(storeQueue)
    /\ UNCHANGED <<nextSessionId, commitLog, lastCommit, nCommits, files>>
    /\ UNCHANGED <<tx, lspQueue, lspActive, lspDoc, ctlVars, wait, closeOutcome, mcpVars>>

ConcurrentCheckProof == \E sessionId \in SessionIds : CheckProofCall(sessionId)

StartSessionReads == \E found \in BOOLEAN : StartSessionLeave(found)

CheckCoqProofReturns == \E located, ok \in BOOLEAN : CheckReturns(located, ok)

ConcurrentNext ==
    \/ StartSessionCall
    \/ ConcurrentCheckProof
    \/ StartSessionEnter
    \/ StartSessionReads
    \/ GetSessionRuns
    \/ CheckCoqProofReturns
    \/ CommitRuns

\* no session, no request
InitConcurrent == StoreInit /\ ExecInit /\ CtlInit /\ AuxInit

SpecConcurrent == InitConcurrent /\ [][ConcurrentNext]_vars

----------------------------------------------------------------------------
(* Properties of the getGoalAfterCoqCode transaction *)

\* the messages of a transaction after its didOpen
AfterOpen(sent) == IF sent = <<>> THEN <<>> ELSE Tail(sent)

\* C1: when a getGoalAfterCoqCode transaction ends, whatever the outcome (a
\* result, a rejection, or the timeout), the scratch file's content is exactly
\* the baseline (sourceFileContentPrefix joined by newlines).
C1_BaselineAfterTransaction ==
    [][\A i \in 1..Len(tx) :
          (tx[i].outer = "pending" /\ tx'[i].outer # "pending")
          => files'[tx[i].file] = sourceFileContent]_vars

\* a transaction has reverted: its change at version v+2 has been answered
Reverted(t) == t.st = "resolved"

\* C2: transactions requested concurrently on one executor and scratch file
\* never interleave: when a transaction's open begins, every other transaction
\* on that file that has begun has already reverted the document or ended.
C2_NoInterleaving ==
    [][\A j \in 1..Len(tx) :
          (tx[j].sent = <<>> /\ tx'[j].sent # <<>>)
          => \A i \in 1..Len(tx) :
                (i # j /\ tx[i].file = tx[j].file /\ tx[i].sent # <<>>)
                => (Reverted(tx[i]) \/ tx[i].outer # "pending")]_vars

\* C3: a transaction started with document version v whose body has finished
\* has sent, after its open, exactly: a change at v+1 with the baseline
\* followed by the fragment; a goal request at v+1 iff that change returned no
\* error diagnostic; and last a change at v+2 with exactly the baseline.
C3_ApplyQueryRevert ==
    \A i \in 1..Len(tx) :
        tx[i].st \in {"resolved", "rejected"}
        => LET t == tx[i]
               apply == Message("change", t.documentVersion + 1,
                                sourceFileContent \o appendedSuffix(t.coqCode))
               query == Message("goals", t.documentVersion + 1, <<>>)
               revert == Message("change", t.documentVersion + 2, sourceFileContent)
           IN  \/ /\ t.diagnostic.present
                  /\ AfterOpen(t.sent) = <<apply, revert>>
               \/ /\ ~t.diagnostic.present
                  /\ AfterOpen(t.sent) = <<apply, query, revert>>

\* the checker's answer is well formed and its stack has pending goals first
\* at an index deeper than 0
StackedOnlyBelow(answer) ==
    /\ answer.kind = "config"
    /\ answer.hasGoalList
    /\ answer.hasStack
    /\ Len(answer.stack) > 1
    /\ Len(answer.stack[1][2]) = 0
    /\ \E d \in 2..Len(answer.stack) : Len(answer.stack[d][2]) > 0

\* the first stack index (0-based) with pending goals
FirstPendingDepth(answer) ==
    CHOOSE d \in 1..(Len(answer.stack) - 1) :
        /\ Len(answer.stack[d + 1][2]) > 0
        /\ \A e \in 1..d : Len(answer.stack[e][2]) = 0

\* C9: if the checker's (well-formed) goal answer has pending goals in its
\* stack only at some depth > 0, the goal extraction, and the transaction when
\* it returns a result, report the error named stack_subgoals carrying that
\* depth and the goals found there, and never an ordinary success goal list.
C9_StackedSubgoals ==
    \A i \in 1..Len(tx) :
        StackedOnlyBelow(tx[i].answer)
        => LET d == FirstPendingDepth(tx[i].answer)
               expected == ErrGoals("stack_subgoals", "JSON",
                                    << <<d, tx[i].answer.stack[d + 1][2]>> >>)
           IN  /\ tx[i].goal = expected
               /\ tx[i].st = "resolved" => tx[i].result = expected
               /\ ~tx[i].result.ok

\* a transaction whose goal answer was stacked two levels down, under a
\* focused goal, has returned its result to the caller
C9_Witness ==
    \E i \in 1..Len(tx) :
        /\ StackedOnlyBelow(tx[i].answer)
        /\ FirstPendingDepth(tx[i].answer) = 2
        /\ tx[i].outer = "resolved"

----------------------------------------------------------------------------
(* Properties of check-proof *)

\* no check-proof request is in progress
Idle == handler.pc = "idle"

\* the counter has advanced by two for the transaction, the commit is to come
BetweenAdvanceAndCommit(sessionId) ==
    /\ handler.pc \in {"commit", "commitValidPrefix"}
    /\ handler.sessionId = sessionId

\* C4 as stated: after N fragment-checking transactions on a session the
\* counter auxFileVersionNumber equals its initial value (1) plus 2N, the
\* commit not advancing it further.
C4_TwoPerTransaction ==
    Idle => \A s \in DOMAIN sessions :
               sessions[s].auxFileVersionNumber = 1 + 2 * counts[s].transactions

\* C4, amended: for check-proof requests handled one at a time, the counter of
\* a registered session equals its initial value (1) plus 3M, M being the
\* number of transactions whose result has been committed: two are added when
\* the transaction returns and one more by the commit, which stores
\* counter + 1; a transaction that is not committed adds nothing.
C4_ThreePerCommittedTransaction ==
    \A s \in DOMAIN sessions :
        sessions[s].auxFileVersionNumber =
            1 + 3 * counts[s].commits
              + (IF BetweenAdvanceAndCommit(s) THEN 2 ELSE 0)

\* a request has run two transactions and committed both on a session that is
\* still registered
C4_Witness ==
    /\ Idle
    /\ \E s \in DOMAIN sessions :
          /\ counts[s].transactions = 2
          /\ counts[s].commits = 2
          /\ sessions[s].auxFileVersionNumber = 7

\* the handler is about to commit a fragment without "admit." whose
\* transaction returned zero goals without error
CompletionCase ==
    /\ handler.pc = "commit"
    /\ handler.result.ok
    /\ Len(handler.result.goals) = 0
    /\ ~Includes(handler.preparedProof, "admit", ".")

\* the response is the proof-complete one, with the hash of a version of the
\* session that holds the fragment's lines and is marked as not incomplete
ReportedComplete ==
    LET r == handler'.response
        s == handler.sessionId
    IN  /\ r.success
        /\ r.message = "Proof complete and valid"
        /\ r.goals = <<>>
        /\ s \in DOMAIN sessions'
        /\ r.hash \in DOMAIN sessions'[s].proofVersions
        /\ sessions'[s].proofVersions[r.hash].proofContent
              = StripProof(Split(handler.preparedProof, "\n"))
        /\ sessions'[s].proofVersions[r.hash].isIncomplete = "false"

\* C10 as stated: a check-proof whose transaction returns zero goals without
\* error and whose prepared fragment has no "admit." is reported as
\* proof-complete (success true, "Proof complete and valid", empty goals, hash
\* of the committed version), the committed version being marked not incomplete.
C10_CompletionRule ==
    [][(CompletionCase /\ handler'.pc # "commit") => ReportedComplete]_vars

\* C10, amended: the same, for a check-proof whose session is still registered
\* when the result is committed.
C10_CompletionRuleRegistered ==
    [][(CompletionCase /\ handler'.pc # "commit" /\ Live(handler.sessionId))
         => ReportedComplete]_vars

\* a check-proof has been answered "Proof complete and valid" with a hash
C10_Witness ==
    /\ Idle
    /\ handler.response.success
    /\ handler.response.message = "Proof complete and valid"
    /\ handler.response.hash # NoHash

----------------------------------------------------------------------------
(* Properties of the proof-version store *)

Last(seq) == seq[Len(seq)]

ProofVersionsOf(sessionId) == sessions[sessionId].proofVersions

\* C5: a commitProofPortion call whose content lines and parent hash equal those
\* of an earlier successful commit in the same live session returns the same
\* hash as that commit and leaves the set of hashes in the version map as it was.
C5_IdempotentCommit ==
    [][nCommits' # nCommits =>
        LET e == lastCommit'
        IN  \A c \in commitLog :
               (/\ SameCommitArgs(c, e)
                /\ c.ret # NoHash
                /\ e.sessionId \in DOMAIN sessions)
               => /\ e.ret = c.ret
                  /\ e.sessionId \in DOMAIN sessions'
                  /\ DOMAIN sessions'[e.sessionId].proofVersions
                        = DOMAIN ProofVersionsOf(e.sessionId)]_vars

\* a successful commit below a non-root parent has been repeated with the same
\* arguments in a live session
C5_Witness ==
    /\ lastCommit.repeated
    /\ lastCommit.ret # NoHash
    /\ lastCommit.parentHash # RootHash
    /\ lastCommit.sessionId \in DOMAIN sessions

\* the tactic steps of a content as the controller normalises them
\* (checkProofInFile: split on ".", trim, drop empties, add the "." back)
NormalizedSteps(lines) ==
    LET parts == Flat([i \in 1..Len(lines) |->
                          Split(RemoveFirstProof(lines[i]), ".")])
        trimmed == [i \in 1..Len(parts) |-> Trim(parts[i])]
        kept == DropEmpty(trimmed)
    IN  [i \in 1..Len(kept) |-> kept[i] \o <<".">>]

StrictExtension(short, long) ==
    /\ Len(short) < Len(long)
    /\ \A i \in 1..Len(short) : long[i] = short[i]

\* C6: a commit whose content is a strict step-wise extension of an existing
\* version V, V being the supplied parent hash, creates the new node as a child
\* of V: the new node's parentHash is V and the new hash is in V's children
\* (so "intros. reflexivity." committed on the version of "intros." is its child).
C6_PrefixReuse ==
    [][nCommits' # nCommits =>
        LET e == lastCommit'
            V == e.parentHash
        IN  (/\ e.sessionId \in DOMAIN sessions
             /\ V \in DOMAIN ProofVersionsOf(e.sessionId)
             /\ StrictExtension(
                    NormalizedSteps(ProofVersionsOf(e.sessionId)[V].proofContent),
                    NormalizedSteps(e.proofPortion)))
            => LET pvAfter == sessions'[e.sessionId].proofVersions
               IN  /\ e.ret \in DOMAIN pvAfter
                   /\ pvAfter[e.ret].parentHash = V
                   /\ \E k \in 1..Len(pvAfter[V].childrenHashes) :
                         pvAfter[V].childrenHashes[k] = e.ret]_vars

RECURSIVE ReachesRoot(_, _, _)
\* following parentHash from hash arrives at the null-parent version within fuel steps
ReachesRoot(proofVersions, hash, fuel) ==
    IF hash \notin DOMAIN proofVersions THEN FALSE
    ELSE IF proofVersions[hash].parentHash = NoHash THEN TRUE
    ELSE IF fuel = 0 THEN FALSE
    ELSE ReachesRoot(proofVersions, proofVersions[hash].parentHash, fuel - 1)

\* C7: the version map of every live session is a tree: exactly one version has
\* a null parent, it is the root made by startSession, every other version's
\* parent is in the map, and the parent pointers of every version lead to the root.
C7_VersionTree ==
    \A s \in DOMAIN sessions :
        LET pv == sessions[s].proofVersions
        IN  /\ {h \in DOMAIN pv : pv[h].parentHash = NoHash} = {RootHash}
            /\ \A h \in DOMAIN pv :
                  /\ h # RootHash => pv[h].parentHash \in DOMAIN pv
                  /\ ReachesRoot(pv, h, Cardinality(DOMAIN pv))

\* a live session whose tree has a version two levels below the root
C7_Witness ==
    \E s \in DOMAIN sessions :
        LET pv == sessions[s].proofVersions
        IN  \E h \in DOMAIN pv :
               /\ pv[h].parentHash \in DOMAIN pv
               /\ pv[h].parentHash # RootHash

IsSeqPrefix(short, long) ==
    /\ Len(short) <= Len(long)
    /\ \A i \in 1..Len(short) : long[i] = short[i]

\* C8: no step changes the content, steps or parent of a version that is in a
\* live session's map, and the version's children list only grows: the list
\* before the step is a prefix of the list after it.
C8_VersionsImmutable ==
    [][\A s \in DOMAIN sessions \cap DOMAIN sessions' :
          \A h \in DOMAIN sessions[s].proofVersions :
             /\ h \in DOMAIN sessions'[s].proofVersions
             /\ LET old == sessions[s].proofVersions[h]
                    new == sessions'[s].proofVersions[h]
                IN  /\ new.proofContent = old.proofContent
                    /\ new.proofSteps = old.proofSteps
                    /\ new.parentHash = old.parentHash
                    /\ IsSeqPrefix(old.childrenHashes, new.childrenHashes)]_vars

----------------------------------------------------------------------------
(* Properties of the responses *)

\* the last response is one of check-proof for a known session and a known
\* version
CheckProofResponse ==
    /\ Idle
    /\ handler.request = "check-proof"
    /\ handler.response.message \notin
           {"", "Session not found", "Proof version not found"}

\* the response tells where its error is: only the message of the response
\* to a proof with errors does ("... at L<line>"); the error object of the
\* other failures holds a message alone
ErrorWithLocation(response) ==
    /\ ~response.success
    /\ response.message = "Proof contains errors"

\* C11: every check-proof response for a known session and a known version
\* hash holds the remaining goals, or the hash of the newly committed version,
\* or an error with its location; and every response with success true holds
\* the hash of the newly committed version
C11_EnoughToProceed ==
    CheckProofResponse =>
        /\ \/ handler.response.goals # <<>>
           \/ handler.response.hash # NoHash
           \/ ErrorWithLocation(handler.response)
        /\ handler.response.success => handler.response.hash # NoHash

\* a request naming sessionId and proofVersionHash is taken by this step
\* (proof-history names a session only)
RequestNaming(sessionId, proofVersionHash) ==
    \/ \E proof \in Proofs : CheckProofBegin(sessionId, proof, proofVersionHash)
    \/ retrieveTheoremFromSession(sessionId, proofVersionHash)
    \/ getProofVersionByHash(sessionId, proofVersionHash)
    \/ getProofHistory(sessionId) /\ ~Live(sessionId)

\* the session id or the version hash is unknown to the store
Unknown(sessionId, proofVersionHash) ==
    \/ ~Live(sessionId)
    \/ proofVersionHash \notin DOMAIN sessions[sessionId].proofVersions

\* success false with a message
StructuredFailure(response) ==
    /\ response.payload = ""
    /\ ~response.success
    /\ response.message # ""

\* C12: a check-proof, session-theorem, proof-version-by-hash or
\* proof-history request naming an unknown session id or an unknown version
\* hash returns success false with a message, starts no transaction against
\* the checker, and leaves every session's version map, version counter and
\* scratch file unchanged
C12_NotFoundIsStructured ==
    [][\A sessionId \in SessionIds :
         \A proofVersionHash \in RequestHashes(sessionId) :
            RequestNaming(sessionId, proofVersionHash)
              /\ Unknown(sessionId, proofVersionHash)
            => /\ handler'.pc = "idle"
               /\ StructuredFailure(handler'.response)
               /\ UNCHANGED <<tx, lspQueue, execQueue, lspActive, lspDoc>>
               /\ UNCHANGED <<sessions, files>>]_vars

----------------------------------------------------------------------------
(* Properties of the client's lock *)

\* the messages a call has sent once the operation it is at has begun
OpsSent(t) ==
    CASE t.op = "open" -> 1
      [] t.op = "close" -> 1
      [] t.op = "update" -> 2
      [] t.op = "goals" -> 3
      [] t.op = "revert" -> IF t.diagnostic.present THEN 3 ELSE 4
      [] OTHER -> 0

\* the operation call i is at has sent its message and has neither returned
\* nor thrown
InFlight(i) ==
    /\ tx[i].st = "queued"
    /\ Len(tx[i].sent) = OpsSent(tx[i])

Waiting(i, queue) == \E k \in 1..Len(queue) : queue[k] = i

\* C13: at most one of openTextDocument, updateTextDocument,
\* closeTextDocument and the goal queries is in flight on the client at any
\* time, so that a second operation sends nothing before the first has
\* returned or thrown; and the step in which an operation returns or throws
\* leaves the lock free
C13_ClientSerialized ==
    /\ [](\A i, j \in 1..Len(tx) : InFlight(i) /\ InFlight(j) => i = j)
    /\ [][\A i \in 1..Len(tx) :
            InFlight(i) /\ tx'[i].st # "queued"
            => ~lspActive' /\ ~Waiting(i, lspQueue')]_vars

\* an operation is in flight while another call, one of whose operations has
\* already returned, waits for the lock having sent nothing for the operation
\* it is at
C13_Witness ==
    \E i, j \in 1..Len(tx) :
        /\ i # j
        /\ InFlight(j)
        /\ Waiting(i, lspQueue)
        /\ tx[i].sent # <<>>
        /\ Len(tx[i].sent) < OpsSent(tx[i])

----------------------------------------------------------------------------
(* Properties of the client's wait *)

SeenProgress == wait.seen.progress

SeenDiagnostics == wait.seen.diagnostics

SeenTailError == wait.seen.tailError

C15_StaleIgnored ==
    wait.outcome = "returned" =>
        /\ wait.seen.awaitedVersion
        /\ wait.awaitedVersion = wait.version

----------------------------------------------------------------------------
(* Termination of the transaction *)

\* call i has settled, with a result or an error, and has left the
\* executor's lock
Settled(i) ==
    /\ i \in 1..Len(tx)
    /\ tx[i].outer \in {"resolved", "rejected", "timedout"}
    /\ \A k \in 1..Len(execQueue) : execQueue[k] # i

----------------------------------------------------------------------------
(* Properties of the session registry *)

\* the version is the root: empty content, empty steps, null parent, no
\* children
IsRoot(version) ==
    /\ version.proofContent = <<>>
    /\ version.proofSteps = <<>>
    /\ version.parentHash = NoHash
    /\ version.childrenHashes = <<>>

C18_CloseAlwaysSucceeds ==
    [][\A sessionId \in SessionIds, unlinkFails \in BOOLEAN :
         CloseSession(sessionId, unlinkFails) =>
            /\ closeOutcome' = "resolved"
            /\ sessionId \notin DOMAIN sessions'
            /\ \A s \in DOMAIN sessions \ {sessionId} :
                  s \in DOMAIN sessions' /\ sessions'[s] = sessions[s]
            /\ sessionId \notin DOMAIN sessions => UNCHANGED <<sessions, files>>]_vars

\* a session was closed while the deletion of its scratch file failed: the
\* entry is gone and the file is still there
C18_Witness ==
    \E sessionId \in 1..nextSessionId :
        /\ sessionId \notin DOMAIN sessions
        /\ files[sessionId] # NoFile
        /\ closeOutcome = "resolved"

----------------------------------------------------------------------------
(* Properties of the version counter under overlapping requests *)

\* C19: a session's document version counter strictly increases over any
\* sequence of check-proof requests, requests whose handlers interleave at
\* their suspension points included: no step sets the counter of a session
\* to a value below the one it held before the step (a step that sets it
\* sets it higher)
C19_CounterIncreases ==
    [][\A s \in DOMAIN sessions \cap DOMAIN sessions' :
          sessions'[s].auxFileVersionNumber >= sessions[s].auxFileVersionNumber]_vars

----------------------------------------------------------------------------
(* Properties of the failure handling of check-proof *)

\* the request that has just ended is one of check-proof
CheckProofEnds ==
    /\ handler' # handler
    /\ handler'.pc = "idle"
    /\ handler'.request = "check-proof"

\* a response object of check-proof: a success flag and a message
ResponseObject(response) ==
    /\ response.success \in BOOLEAN
    /\ response.message # ""
    /\ response.payload = ""

\* C20: check-proof never lets an internal failure escape as an unhandled
\* fault: whatever happens inside (a timeout of the checker, an exception
\* thrown by the transaction, a failed commit, a failure while the valid
\* prefix is checked again), the request ends with a response object that
\* has a success flag and a message
C20_AlwaysResponds == [][CheckProofEnds => ResponseObject(handler'.response)]_vars

\* a request has ended in the catch clause after its transaction timed out or
\* was rejected
C20_Witness ==
    /\ Idle
    /\ handler.request = "check-proof"
    /\ handler.response.message = "Failed to check proof"
    /\ handler.response.error # ""
    /\ \E i \in DOMAIN tx : tx[i].outer \in {"timedout", "rejected"}

----------------------------------------------------------------------------
(* Properties of the tree read by proof-history *)

RECURSIVE Descendants(_, _, _)
\* the hashes buildProofTree visits from hash: the node itself and, through
\* childrenHashes, the nodes below it (fuel bounds the depth)
Descendants(proofVersions, hash, fuel) ==
    IF hash \notin DOMAIN proofVersions THEN {}
    ELSE IF fuel = 0 THEN {hash}
    ELSE {hash} \cup
         UNION {Descendants(proofVersions,
                            proofVersions[hash].childrenHashes[k], fuel - 1) :
                   k \in 1..Len(proofVersions[hash].childrenHashes)}

\* C21: the full attempt tree is recoverable from the root: in every
\* reachable state every version in the map of a session is reached from the
\* root by following children lists, so that proof-history returns every
\* version committed in the session
C21_TreeRecoverable ==
    \A s \in DOMAIN sessions :
        LET pv == sessions[s].proofVersions
        IN  DOMAIN pv = Descendants(pv, RootHash, Cardinality(DOMAIN pv))

----------------------------------------------------------------------------
(* Properties of what an operation may write *)

\* the part of a session no operation may change
Identity(session) ==
    <<session.id, session.sourceFilePath, session.theoremName,
      session.theoremStatement, session.auxFileUri, session.filePrefixContent>>

\* every session but sessionId is what it was, and so is its scratch file
OthersUntouched(sessionId) ==
    /\ \A t \in DOMAIN sessions \ {sessionId} :
          t \in DOMAIN sessions' /\ sessions'[t] = sessions[t]
    /\ \A t \in OwnerIds \ {sessionId} : files'[t] = files[t]

\* C22: between startSession and closeSession a session is written only by
\* commit and by the advance of the version counter: no operation changes
\* the id, the source file path, the theorem name, the theorem statement, the
\* location of the scratch file or the prefix lines of a session, and an
\* operation on one session leaves every other session as it was
C22_SessionFrame ==
    [][/\ \A s \in DOMAIN sessions \cap DOMAIN sessions' :
             Identity(sessions'[s]) = Identity(sessions[s])
       /\ \A s \in OwnerIds :
             /\ (\E parentHash \in {RootHash, UnknownHash} :
                    OwnerCommit(s, parentHash)) => OthersUntouched(s)
             /\ OwnerAdvance(s) => OthersUntouched(s)
             /\ (\E unlinkFails \in BOOLEAN : OwnerClose(s, unlinkFails))
                    => OthersUntouched(s)
       /\ OwnerStart => OthersUntouched(nextSessionId')]_vars

\* two sessions are alive: the last commit went to one of them, whose counter
\* has advanced, and the other holds what startSession gave it
C22_Witness ==
    \E s, t \in DOMAIN sessions :
        /\ s # t
        /\ lastCommit.sessionId = s
        /\ lastCommit.ret # NoHash
        /\ sessions[s].auxFileVersionNumber > 3
        /\ sessions[t] = NewSession(t)

----------------------------------------------------------------------------
(* Properties of the state a transaction starts from *)

\* transaction i is about to append its fragment: its openTextDocument has
\* returned and appendFileSync comes next
Appends(i) ==
    /\ i \in 1..Len(tx)
    /\ tx[i].op = "open"
    /\ tx[i].st = "returned"
    /\ tx'[i].op = "update"

\* C23: at the start of every transaction, before the candidate fragment is
\* appended and applied, the scratch document (the file on disk and the text
\* opened in the checker) holds exactly the baseline prefix, whatever state
\* an earlier transaction, one that timed out or threw included, left it in
C23_StartsFromBaseline ==
    [][\A i \in 1..Len(tx) :
          Appends(i) =>
              /\ files[tx[i].file] = sourceFileContent
              /\ tx[i].sent[1].text = sourceFileContent]_vars

----------------------------------------------------------------------------
(* Properties of the error a diagnostic becomes *)

\* the update of transaction i has returned an error diagnostic and the body
\* has gone on to return its result
RejectedFragment(i) ==
    /\ i \in 1..Len(tx)
    /\ tx[i].diagnostic.present
    /\ tx[i].st = "resolved"

\* the result of checkCoqProof held by the handler is an error captured from
\* a diagnostic: it has a location, and not the 0:0 given to an error without
Captured(h) ==
    /\ h.pc \in {"commit", "validPrefix", "commitValidPrefix"}
    /\ \/ h.errorousLineNumber # -1
       \/ /\ h.pc = "commit"
          /\ ~h.result.ok
          /\ h.result.location \notin {<<>>, ZeroLocation}

CapturedLine(h) ==
    IF h.errorousLineNumber # -1 THEN h.errorousLineNumber
    ELSE h.result.location[1][1]

\* the transaction's half of C24: an error diagnostic of the update becomes
\* the error result, with the message and the range of the diagnostic
DiagnosticBecomesResult ==
    \A i \in 1..Len(tx) :
        RejectedFragment(i) =>
            /\ ~tx[i].result.ok
            /\ tx[i].result.message = tx[i].diagnostic.ppMessage
            /\ tx[i].result.location = tx[i].diagnostic.range

\* C24: if applying the candidate yields an error diagnostic at or after the
\* end of the baseline, the transaction returns an error result with the
\* message and the location (start and end, line and character) of the
\* diagnostic, and that location reaches the caller of check-proof: the
\* response of the request names the line of the diagnostic
C24_LocationReachesCaller ==
    [][/\ DiagnosticBecomesResult'
       /\ (CheckProofEnds /\ Captured(handler))
              => handler'.response.line = CapturedLine(handler)]_vars

----------------------------------------------------------------------------
(* Properties of the goal extraction at depth 0 *)

\* the checker's answer is well formed and the first entry of its stack, the
\* one at depth index 0, has pending goals
PendingAtDepthZero(answer) ==
    /\ answer.kind = "config"
    /\ answer.hasGoalList
    /\ answer.hasStack
    /\ Len(answer.stack) > 0
    /\ Len(answer.stack[1][2]) > 0

\* C25: the goal extraction scans the goal stack of the checker from depth
\* index 0 upward and takes the first depth with a pending goal; if that depth
\* is 0 the goal list is returned as ordinary success (Ok) and not as the
\* stacked-subgoals condition
C25_DepthZeroIsSuccess ==
    \A i \in 1..Len(tx) :
        PendingAtDepthZero(tx[i].answer) => tx[i].goal = OkGoals(tx[i].answer.goals)

----------------------------------------------------------------------------
(* Properties of the search for the node a commit attaches to *)

RECURSIVE DepthOf(_, _, _)
\* the number of parent links between a version and the root
DepthOf(proofVersions, hash, fuel) ==
    IF hash \notin DOMAIN proofVersions \/ fuel = 0 THEN 0
    ELSE IF proofVersions[hash].parentHash = NoHash THEN 0
    ELSE 1 + DepthOf(proofVersions, proofVersions[hash].parentHash, fuel - 1)

\* the nodes at and below parentHash whose step list is an exact prefix of
\* the steps of proofPortion
Qualifying(proofVersions, parentHash, proofPortion) ==
    {h \in Descendants(proofVersions, parentHash, Cardinality(DOMAIN proofVersions)) :
        IsPrefix(proofVersions[h].proofSteps,
                 ProofPortionSteps(StripProof(proofPortion)))}

\* C26: commitProofPortion attaches the new node to the deepest existing node,
\* among the nodes of the tree searched depth-first from the supplied parent
\* hash, whose step list is an exact prefix of the new step list; every child
\* branch is searched, and the root is chosen only when no searched node
\* qualifies as a prefix
C26_DeepestPrefix ==
    [][nCommits' # nCommits =>
        LET e == lastCommit'
        IN  (/\ e.sessionId \in DOMAIN sessions
             /\ e.parentHash \in DOMAIN ProofVersionsOf(e.sessionId)
             /\ e.ret # NoHash)
            => LET pv == ProofVersionsOf(e.sessionId)
                   n == Cardinality(DOMAIN pv)
                   found == sessions'[e.sessionId].proofVersions[e.ret].parentHash
                   qualifying == Qualifying(pv, e.parentHash, e.proofPortion)
               IN  IF qualifying = {} THEN found = RootHash
                   ELSE /\ found \in qualifying
                        /\ \A h \in qualifying :
                              DepthOf(pv, h, n) <= DepthOf(pv, found, n)]_vars

----------------------------------------------------------------------------
(* Properties of a commit on an unknown parent *)

\* C27: when commitProofPortion is called on an existing session with a
\* parent hash that is not in the version map of the session, the search
\* falls back to the root of the tree: the commit succeeds, the new node is
\* created as a child of the root, and its hash is returned
C27_UnknownParentFallsBack ==
    [][nCommits' # nCommits =>
        LET e == lastCommit'
        IN  (/\ e.sessionId \in DOMAIN sessions
             /\ e.parentHash \notin DOMAIN ProofVersionsOf(e.sessionId))
            => LET pvAfter == sessions'[e.sessionId].proofVersions
               IN  /\ e.ret # NoHash
                   /\ e.ret \in DOMAIN pvAfter
                   /\ pvAfter[e.ret].parentHash = RootHash
                   /\ \E k \in 1..Len(pvAfter[RootHash].childrenHashes) :
                         pvAfter[RootHash].childrenHashes[k] = e.ret]_vars

----------------------------------------------------------------------------
(* Properties of the step list a commit stores *)

\* a step without its closing "."
Body(step) == IF step = <<>> THEN <<>> ELSE SubSeq(step, 1, Len(step) - 1)

\* C28: commitProofPortion normalizes the new lines into tactic-step tokens by
\* splitting on the step delimiter, trimming each token and dropping the empty
\* ones: the stored step list holds no empty or whitespace-only step, and two
\* contents that differ only in whitespace around steps get the same step
\* list (the one of the trimmed steps)
C28_StepsNormalized ==
    \A s \in DOMAIN sessions :
        \A h \in DOMAIN sessions[s].proofVersions :
            LET version == sessions[s].proofVersions[h]
            IN  /\ \A k \in 1..Len(version.proofSteps) :
                      Trim(Body(version.proofSteps[k])) # <<>>
                /\ version.proofSteps = NormalizedSteps(version.proofContent)

----------------------------------------------------------------------------
(* Properties of the diagnostic a wait returns *)

\* the wait returns in this step
WaitReturns == wait.outcome = "waiting" /\ wait'.outcome = "returned"

\* the wait ends in this step, by a return or by a throw
WaitEnds == wait.outcome = "waiting" /\ wait'.outcome \in {"returned", "thrown"}

\* C29: a synchronizer operation returns the first error-severity diagnostic
\* whose range starts at or after the anchor position of the caller (line and
\* character), or none: diagnostics of other severities and error diagnostics
\* that start before the anchor are never returned
C29_FirstErrorFromAnchor ==
    [][WaitReturns =>
          wait'.result = filterDiagnosticsByPosition(wait'.awaitedDiagnostics[1],
                                                     AnchorLine(wait),
                                                     AnchorCharacter(wait))]_vars

----------------------------------------------------------------------------
(* Properties of the bound on a wait *)

\* both awaited signals have been delivered to the wait
BothDelivered == SeenProgress /\ SeenDiagnostics

----------------------------------------------------------------------------
(* C31: answers the goal scan cannot read *)

\* the answers of a goal request that are missing or malformed
Malformed(answer) == answer \in MalformedAnswers

\* the malformed answers the scan recognizes by its own tests: no answer, no
\* goals object, or no goal list beside a stack
RecognizedMalformed(answer) ==
    \/ answer.kind \in {"undefined", "noGoals"}
    \/ answer.kind = "config" /\ answer.hasStack /\ ~answer.hasGoalList

----------------------------------------------------------------------------
(* C32: the focused goal list against the goal stack *)

\* the goal request of call i was answered with a goals object that holds a
\* goal list and a stack
AnsweredWellFormed(i) ==
    /\ tx[i].answer.kind = "config"
    /\ tx[i].answer.hasGoalList
    /\ tx[i].answer.hasStack

\* C32: when the checker answers a goal query with a non-empty focused goal
\* list, getGoalsAtPoint returns exactly that list as Ok, whatever goals the
\* answer's stack holds; the stacked-subgoals condition is returned only when
\* the focused goal list is empty
C32_FocusedGoalsReturned ==
    \A i \in 1..Len(tx) :
        AnsweredWellFormed(i) =>
          /\ tx[i].answer.goals # <<>> => tx[i].goal = OkGoals(tx[i].answer.goals)
          /\ tx[i].goal.name = "stack_subgoals" => tx[i].answer.goals = <<>>

----------------------------------------------------------------------------
(* C33: children lists and parent links agree *)

\* the hashes a children list holds
Children(version) == {version.childrenHashes[k] : k \in 1..Len(version.childrenHashes)}

\* no hash is twice in the list
NoDuplicates(seq) ==
    \A j, k \in 1..Len(seq) : seq[j] = seq[k] => j = k

\* C33: in every reachable state, no version's children list contains the same
\* hash twice, and a hash is in a node's children list exactly when the node
\* with that hash has this node as its parent
C33_ChildrenMatchParents ==
    \A s \in DOMAIN sessions :
        LET proofVersions == sessions[s].proofVersions
        IN  \A h \in DOMAIN proofVersions :
              /\ NoDuplicates(proofVersions[h].childrenHashes)
              /\ \A c \in Children(proofVersions[h]) :
                    c \in DOMAIN proofVersions /\ proofVersions[c].parentHash = h
              /\ \A c \in DOMAIN proofVersions :
                    proofVersions[c].parentHash = h => c \in Children(proofVersions[h])

----------------------------------------------------------------------------
(* C34: the document lifecycle the checker is sent *)

\* call i sends a message to the checker in this step
Sends(i) ==
    /\ i \in 1..Len(tx')
    /\ Len(tx'[i].sent) = Len(tx[i].sent) + 1

\* the message call i sends in this step
SentNow(i) == tx'[i].sent[Len(tx'[i].sent)]

\* C34: the document lifecycle sent to the checker is well formed for each
\* scratch document: an open is never sent for a document that is already
\* open, and no change or goal query is sent for a document that is closed,
\* over any sequence of transactions and of other requests that interleave
C34_LifecycleWellFormed ==
    [][\A i \in 1..Len(tx) :
          Sends(i) =>
            /\ SentNow(i).kind = "open" => ~lspDoc[tx[i].file].open
            /\ SentNow(i).kind \in {"change", "goals"} => lspDoc[tx[i].file].open]_vars

----------------------------------------------------------------------------
(* C35: the versions the notifications carry *)

\* the version of the notification the checker was sent last for the
\* document, none (-1) before the first one
LastNotified(file) == IF lspDoc[file].open THEN lspDoc[file].version ELSE -1

\* C35: the version numbers carried by the open and change notifications sent
\* to the checker for one scratch document are strictly increasing over the
\* session's lifetime: no two notifications carry the same version and none
\* carries a version lower than an earlier one
C35_VersionsIncrease ==
    [][\A i \in 1..Len(tx) :
          (Sends(i) /\ SentNow(i).kind \in {"open", "change"}) =>
            LastNotified(tx[i].file) < SentNow(i).version]_vars

----------------------------------------------------------------------------
(* C36: a closed session stays closed *)

\* closeSession has completed for the session: its id was handed out and the
\* map no longer holds it
Closed(sessionId) ==
    sessionId <= nextSessionId /\ sessionId \notin DOMAIN sessions

\* C36: once closeSession has completed for a session, the session's scratch
\* file does not exist and is never re-created, and no version is committed
\* for that session, even when a check-proof on that session was in flight at
\* the moment of closing
C36_ClosedStaysClosed ==
    [][\A s \in SessionIds :
          Closed(s)' =>
            /\ files'[s] = NoFile
            /\ Closed(s) => counts'[s].commits = counts[s].commits]_vars

----------------------------------------------------------------------------
(* C37: a transaction without verdict *)

\* the result of a transaction that ended without a verdict of the checker:
\* a timeout or an internal error, that is neither goals, nor the
\* stacked-subgoals condition, nor an error diagnostic (which has a location)
NoVerdict(result) ==
    /\ ~result.ok
    /\ result.name # "stack_subgoals"
    /\ result.location \in {<<>>, ZeroLocation}

\* C37: a check-proof whose transaction fails without a checker verdict
\* (timeout or internal error) leaves the session's version tree unchanged: no
\* node is added for the unchecked fragment
C37_NoVerdictNoNode ==
    [][(/\ handler.pc = "commit"
        /\ NoVerdict(handler.result)
        /\ handler'.pc = "idle"
        /\ Live(handler.sessionId)) =>
          sessions'[handler.sessionId].proofVersions =
              sessions[handler.sessionId].proofVersions]_vars

----------------------------------------------------------------------------
(* C38: withTextDocument *)

\* the number of messages of the kind the call has sent
SentCount(t, kind) ==
    Cardinality({k \in 1..Len(t.sent) : t.sent[k].kind = kind})

\* the block of the call has finished and the call has ended
EndedAfterBlock(t) ==
    IsWith(t) /\ t.goal # NoResult /\ t.st \in {"resolved", "rejected"}

\* the block has been started
BlockStarted(t) == IsWith(t) /\ (t.op \in {"block", "close"} \/ t.goal # NoResult)

\* C38: withTextDocument closes the document exactly once after its block
\* finishes, whether the block returns or throws, and then propagates the
\* block's result or exception; the block runs only after the open has returned
C38_CloseOnceAndPropagate ==
    \A i \in 1..Len(tx) :
        /\ BlockStarted(tx[i]) =>
              /\ SentCount(tx[i], "open") = 1
              /\ tx[i].sent[1].kind = "open"
        /\ IsWith(tx[i]) => SentCount(tx[i], "close") <= 1
        /\ EndedAfterBlock(tx[i]) =>
              /\ SentCount(tx[i], "close") = 1
              /\ tx[i].result = tx[i].goal
              /\ tx[i].st = IF tx[i].goal.ok THEN "resolved" ELSE "rejected"

\* C38, amended: withTextDocument calls closeTextDocument exactly once after
\* its block finishes, whether the block returns or throws, and the block runs
\* only after the open has returned; it then propagates the block's result or
\* exception if the close returns, and the exception of the close if the
\* close throws
C38_CloseOnceAndPropagateUnlessCloseThrows ==
    \A i \in 1..Len(tx) :
        /\ BlockStarted(tx[i]) =>
              /\ SentCount(tx[i], "open") = 1
              /\ tx[i].sent[1].kind = "open"
        /\ IsWith(tx[i]) => SentCount(tx[i], "close") <= 1
        /\ EndedAfterBlock(tx[i]) =>
              /\ SentCount(tx[i], "close") = 1
              /\ \/ tx[i].result = CloseError /\ tx[i].st = "rejected"
                 \/ /\ tx[i].result = tx[i].goal
                    /\ tx[i].st = IF tx[i].goal.ok THEN "resolved" ELSE "rejected"

\* one call whose block threw has closed the document and propagated the
\* block's exception, and one whose block returned has propagated its value
C38_Witness ==
    /\ \E i \in 1..Len(tx) :
          /\ EndedAfterBlock(tx[i])
          /\ tx[i].goal = BlockError /\ tx[i].result = BlockError
          /\ SentCount(tx[i], "close") = 1
    /\ \E i \in 1..Len(tx) :
          /\ EndedAfterBlock(tx[i])
          /\ tx[i].goal = BlockValue /\ tx[i].result = BlockValue
          /\ tx[i].st = "resolved"

----------------------------------------------------------------------------
(* C39: which /mcp requests reach a transport *)

\* the request named a transport registered in the map, or it is a POST
\* without session id that is an initialize request
Eligible(r) ==
    \/ r.registered
    \/ r.method = "POST" /\ ~Truthy(r.sessionId) /\ r.isInitialize

\* C39: a POST /mcp is handled by a transport only if its mcp-session-id
\* header names a transport registered in the transports map, or it carries
\* no session id and is an initialize request (which creates and registers a
\* new transport); every other POST, GET or DELETE gets status 400 and
\* registers nothing, and a transport that was closed is no longer in the map
C39_OnlyRegisteredOrInitialize ==
    /\ mcpResponse.method # "none" =>
          /\ mcpResponse.status = "handled" => Eligible(mcpResponse)
          /\ ~Eligible(mcpResponse) =>
                mcpResponse.status = "400" /\ mcpResponse.created = NoHeader
          /\ mcpResponse.created # NoHeader =>
                /\ mcpResponse.method = "POST"
                /\ ~Truthy(mcpResponse.sessionId)
                /\ mcpResponse.isInitialize
                /\ mcpResponse.created \in transports \cup mcpClosed
    /\ transports \cap mcpClosed = {}

====
